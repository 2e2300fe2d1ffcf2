--------------------------- MODULE MCEventService ---------------------------
EXTENDS EventService

CONSTANTS name1, name2, isin1, isin2, instrument1, instrument2,
          factory1, factory2, bond, emtn

TwoBonds ==
    {[name |-> name1, isinCode |-> isin1, address |-> instrument1],
     [name |-> name2, isinCode |-> isin2, address |-> instrument2]}
=============================================================================
