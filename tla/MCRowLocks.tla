----------------------------- MODULE MCRowLocks -----------------------------
(***************************************************************************)
(* Three transactions over two collections that hold an object each.  A    *)
(* writer of the first collection, another writer or the owner of the      *)
(* account, and the owner or a job go for the same blob, Mutation IDs,     *)
(* collection and account.                                                 *)
(***************************************************************************)
EXTENDS RowLocks

CONSTANTS t1, t2, t3, c1, c2, o1, o2, o3, k1, k2, k3, m1, m2

MCTx == {t1, t2, t3}

MCWork(t) ==
    CASE t = t1 -> {Create(c1, k3, m1), Update(c1, o1, 1, k3, m1)}
      [] t = t2 -> {Update(c2, o2, 1, k3, m2), Update(c1, o1, 1, k3, m1), Delete(c1, o1, 1, m2),
                    ClaimVault, Drop(c1), Expire("expire_pending")}
      [] t = t3 -> {ClaimVault, Drop(c1), OnBlob("delete_blob", k3), OnBlob("purge", k3),
                    Expire("expire_pending"), Expire("expire_other")}

Object(c, k) == [collection |-> c, version |-> 1, blob |-> k, deleted |-> FALSE]
Recorded(status, age) == [collection |-> c1, status |-> status, age |-> age]

Tables(state, r, s) ==
    [collections |-> {c1, c2},
     objects |-> (o1 :> Object(c1, k1) @@ o2 :> Object(c2, k2) @@ o3 :> None),
     ledger |-> (k1 :> Row("claimed", c1) @@ k2 :> Row("claimed", c2) @@ k3 :> Row(state, None)),
     results |-> (m1 :> r @@ m2 :> s)]

Old == Recorded("pending", 1)

MCContents ==
    {Tables("staged", None, None), Tables("stale", None, None),
     Tables("staged", None, Old), Tables("staged", Old, Old),
     Tables("staged", Old, Recorded("done", 2)), Tables("stale", Old, Recorded("done", 2)),
     [collections |-> {}, objects |-> [o \in Objects |-> None],
      ledger |-> [k \in Blobs |-> None], results |-> [m \in MutationIDs |-> None]]}
=============================================================================
