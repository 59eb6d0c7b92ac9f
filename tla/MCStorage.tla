------------------------------ MODULE MCStorage ------------------------------
(***************************************************************************)
(* Finite instances of Storage: free records and paid records, one table   *)
(* for each kind.                                                          *)
(***************************************************************************)
EXTENDS Storage, TLC

CONSTANTS FreeRecords, PaidRecords

MCRecords == FreeRecords \cup PaidRecords
MCTables  == {"free", "paid"}
MCTableOf == [r \in MCRecords |-> IF r \in FreeRecords THEN "free" ELSE "paid"]

\* Records of one kind are interchangeable (safety runs only).
RecordSymmetry == Permutations(FreeRecords) \cup Permutations(PaidRecords)

=============================================================================
