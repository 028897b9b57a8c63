------------------------------- MODULE StaleRows -------------------------------
(***************************************************************************)
(* Saving a row that was read earlier, as TypeORM's save does it: it looks *)
(* at the row as it is, then updates the columns in which the copy differs.*)
(***************************************************************************)

(* The rows that saving `new`, made of the copy `read`, may leave.  When   *)
(* the row had changed before save looked at it, every column of the copy  *)
(* comes with it; when it changed after, only those the caller has set.    *)
(* The row that is looked at between two changes of others is left out.    *)
Saved(row, read, new) ==
    {new, [f \in DOMAIN row |-> IF new[f] # read[f] THEN new[f] ELSE row[f]]}
=============================================================================
