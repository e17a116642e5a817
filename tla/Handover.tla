------------------------------ MODULE Handover ------------------------------
(***************************************************************************)
(* What deliveries promise about the torrents in the client, whatever      *)
(* fails on the way: an update is started by the program only when the     *)
(* files it holds back are skipped, a file is skipped only where another   *)
(* version wants it, and a version that is replaced leaves what it wanted  *)
(* on the disk wherever others hold files back.  Module Delivery           *)
(* implements it.                                                          *)
(***************************************************************************)
CONSTANTS Releases, Files, Manifest

VARIABLE box    \* box[r]: release r in the client: here, and running, the
                \* files it skips and should, whether the user took over,
                \* and the files of a removed version that stay on the disk

Box == [here: BOOLEAN, run: BOOLEAN, skip: SUBSET Files, old: SUBSET Files, user: BOOLEAN,
        left: SUBSET Files]

\* A version that is not in the client, and the files it left on the disk.
Removed(files) ==
    [here |-> FALSE, run |-> FALSE, skip |-> {}, old |-> {}, user |-> FALSE, left |-> files]

Absent == Removed({})

Init == box = [r \in Releases |-> Absent]

\* A torrent that holds files back enters the client stopped, and a version
\* that was replaced does not come back.
Hand(r) ==
    /\ box[r] = Absent
    /\ \E old \in SUBSET Files, run \in BOOLEAN :
        /\ run => old = {}
        /\ box' = [box EXCEPT ![r] = [here |-> TRUE, run |-> run, skip |-> {}, old |-> old,
                                      user |-> FALSE, left |-> {}]]

\* A version in the client downloads f, or one that was replaced has.
WantedElsewhere(f, r) ==
    \E q \in Releases \ {r} :
        \/ box[q].here /\ f \in Manifest[q] \ box[q].skip
        \/ f \in box[q].left

Skip(r) ==
    /\ box[r].here
    /\ \E files \in SUBSET Files :
        /\ \A f \in files : WantedElsewhere(f, r)
        /\ box' = [box EXCEPT ![r].skip = @ \cup files]

Start(r) ==
    /\ box[r].here /\ box[r].old \subseteq box[r].skip
    /\ box' = [box EXCEPT ![r].run = TRUE]

Stop(r) == box[r].here /\ box' = [box EXCEPT ![r].run = FALSE]

\* From here on the user answers for whether the torrent runs.
User(r) ==
    /\ box[r].here
    /\ \E run \in BOOLEAN : box' = [box EXCEPT ![r].run = run, ![r].user = TRUE]

\* Versions are taken out of the client, with their data only where no
\* version holds a file back.
Remove(gone) ==
    /\ \A r \in gone : box[r].here
    /\ \E keep \in BOOLEAN :
        /\ keep \/ \A q \in Releases : box[q].skip = {}
        /\ box' = [r \in Releases |->
              IF r \notin gone THEN box[r]
              ELSE Removed(IF keep THEN Manifest[r] \ box[r].skip ELSE {})]

Next == \/ \E r \in Releases : Hand(r) \/ Skip(r) \/ Start(r) \/ Stop(r) \/ User(r)
        \/ \E gone \in SUBSET Releases : Remove(gone)

Spec == Init /\ [][Next]_box

----------------------------------------------------------------------------
TypeOK == box \in [Releases -> Box]

\* No old file downloads by the program's doing (update_policy.go:18-22).
OldFilesStay ==
    \A r \in Releases : box[r].here /\ box[r].run /\ ~box[r].user
        => box[r].old \subseteq box[r].skip

\* No file is skipped in every version: another one in the client wants it, or
\* one that was replaced wanted it and left its data (deliveries.go:58-72,
\* policy.go:10-15).
NoFileLost ==
    \A r \in Releases : box[r].here => \A f \in box[r].skip : WantedElsewhere(f, r)
=============================================================================
