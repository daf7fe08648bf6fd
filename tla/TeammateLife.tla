----------------------------- MODULE TeammateLife -----------------------------
(***************************************************************************)
(* What the board promises about the row of a teammate or background task  *)
(* (the comment on the statuses in internal/board/board.go): it appears    *)
(* running, it ends once, and how it ended stays what it says -- done,     *)
(* stopped and stale are final, and the spawner is owed one report.        *)
(***************************************************************************)
CONSTANT Kids

VARIABLE status

Terminal == {"done", "stopped", "stale"}

LifeInit == status = [k \in Kids |-> "none"]

Join(k) == status[k] = "none" /\ status' = [status EXCEPT ![k] = "running"]

End(k) ==
  /\ status[k] = "running"
  /\ \E s \in Terminal : status' = [status EXCEPT ![k] = s]

(* A restart finds every row whose loop is gone at once. *)
EndAll ==
  status' = [k \in Kids |-> IF status[k] = "running" THEN "stale"
                                                     ELSE status[k]]

LifeNext == EndAll \/ \E k \in Kids : Join(k) \/ End(k)

LifeSpec == LifeInit /\ [][LifeNext]_status

=============================================================================
