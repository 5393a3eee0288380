SPECIFICATION Spec
CONSTANT Nil = Nil
CHECK_DEADLOCK FALSE
INVARIANTS ScreenIsTrue OneOwner MeansWhatItSays
 
