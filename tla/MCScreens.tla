------------------------------ MODULE MCScreens ------------------------------
EXTENDS Screens, TLC
Symmetry == Permutations(DriverTabs)
            \cup Permutations(PaymentIds)
            \cup Permutations(Attempts)

\* The inquiry runs while the desk shows nothing and no transfer has been made.
MCNext ==
  /\ ScreensNext
  /\ \/ made' = {} /\ \A c \in DeskTabs : desk'[c] = BlankDesk
     \/ inquired' = {} /\ \A w \in Workers : workers'[w] = NoInquiry

MCSpec == ScreensInit /\ [][MCNext]_<<lifeVars, screenVars>>
=============================================================================
