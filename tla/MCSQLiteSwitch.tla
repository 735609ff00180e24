--------------------------- MODULE MCSQLiteSwitch ---------------------------
(***************************************************************************)
(* A Compose install and one more server on its PostgreSQL database.       *)
(***************************************************************************)
EXTENDS SQLiteSwitch, TLC

CONSTANTS OldShips   \* how many migrations the install's image ships

MCShips == "older" :> ("postgres" :> 1 @@ "sqlite" :> 1)
        @@ "old"   :> ("postgres" :> OldShips @@ "sqlite" :> 1)
        @@ "new"   :> ("postgres" :> 2 @@ "sqlite" :> 1)
=============================================================================
