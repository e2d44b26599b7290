------------------------------ MODULE MCSyncRun ------------------------------
(* Small instances of SyncRun for TLC.                                      *)
EXTENDS SyncRun

CONSTANTS
    f1, r1,     \* front and rear recording of the first shot
    f2,         \* front recording of the second shot
    s1, s2,     \* the shots
    g1, g2      \* their group directories

\* One shot taken by the front and the rear camera: two videos that share
\* their accelerometer file.
PairRecordings == {f1, r1}
PairShots == {s1}
PairShotOf == [r \in PairRecordings |-> s1]
PairDayOf == [s \in PairShots |-> 1]
PairGroups == {g1}
PairGroupOf == [s \in PairShots |-> g1]
PairRank == [r \in PairRecordings |-> IF r = f1 THEN 0 ELSE 1]
PairArtifacts == <<"mp4", "3gf">>

\* Two shots on different days, in different groups.
DaysRecordings == {f1, f2}
DaysShots == {s1, s2}
DaysShotOf == [r \in DaysRecordings |-> IF r = f1 THEN s1 ELSE s2]
DaysDayOf == [s \in DaysShots |-> IF s = s1 THEN 1 ELSE 2]
DaysGroups == {g1, g2}
DaysGroupOf == [s \in DaysShots |-> IF s = s1 THEN g1 ELSE g2]
DaysRank == [r \in DaysRecordings |-> 0]
DaysArtifacts == <<"mp4", "thm">>

NoRetention == {0}
Retention == {0, 2}
Plain == {[dry |-> FALSE, skip |-> {}]}
WetOrDry == [dry : BOOLEAN, skip : {{}}]
AnyOptions == [dry : BOOLEAN, skip : {{}, {"thm"}}]

PairListing == {PairRecordings}
PairListings == SUBSET PairRecordings
DaysListings == SUBSET DaysRecordings

=============================================================================
