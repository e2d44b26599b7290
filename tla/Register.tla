------------------------------ MODULE Register ------------------------------
(***************************************************************************)
(* What the settings of the server promise, with threads, locks, temporary  *)
(* files and listeners left out: a register that outlives the server.  New  *)
(* contents, made of what is in force, are stored first, then made safe,    *)
(* and come into force only then.  A start takes what is stored, safe or    *)
(* not, and a power loss may take back what is not safe; but only what is   *)
(* safe is promised.  SettingsStore implements this specification.          *)
(***************************************************************************)
EXTENDS Naturals

CONSTANTS
    Fields, Values, \* the contents: a number for each field
    Nothing         \* no contents

VARIABLES
    inForce,        \* what the server acts on, Nothing while it does not run
    stored,         \* what would be found by a start now
    safe,           \* what would be found after a power loss
    promised        \* what somebody was told is there to stay

vars == <<inForce, stored, safe, promised>>

Contents == [Fields -> Values]
Blank == [f \in Fields |-> 0]

NotOlder(c, s) == \A f \in Fields : c[f] >= s[f]

Init ==
    /\ inForce = Nothing
    /\ stored \in {Nothing, Blank} /\ safe = stored
    /\ promised = Blank

\* New contents, not older than those they are made of.
Store ==
    LET base == IF inForce # Nothing THEN inForce ELSE stored
    IN /\ stored' \in Contents
       /\ base # Nothing => NotOlder(stored', base)
       /\ UNCHANGED <<inForce, safe, promised>>

Secure ==
    /\ safe' = stored
    /\ UNCHANGED <<inForce, stored, promised>>

\* A start takes what is stored; it may promise it when it is safe.
Start ==
    /\ inForce = Nothing /\ stored # Nothing
    /\ inForce' = stored
    /\ \/ promised' = promised
       \/ safe = stored /\ promised' = stored
    /\ UNCHANGED <<stored, safe>>

\* An update comes into force once it is safe.
Adopt ==
    /\ inForce # Nothing
    /\ safe = stored
    /\ inForce' = stored
    /\ UNCHANGED <<stored, safe, promised>>

\* Somebody is told of what is in force and safe, or of something older.
Promise ==
    /\ inForce # Nothing /\ safe # Nothing
    /\ promised' \in Contents
    /\ NotOlder(inForce, promised') /\ NotOlder(safe, promised')
    /\ NotOlder(promised', promised)
    /\ UNCHANGED <<inForce, stored, safe>>

Stop ==
    /\ inForce' = Nothing
    /\ UNCHANGED <<stored, safe, promised>>

PowerLoss ==
    /\ inForce' = Nothing
    /\ stored' \in {stored, safe} /\ safe' = stored'
    /\ UNCHANGED promised

Next == Store \/ Secure \/ Start \/ Adopt \/ Promise \/ Stop \/ PowerLoss

Spec == Init /\ [][Next]_vars

=============================================================================
