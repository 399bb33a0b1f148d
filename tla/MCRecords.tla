-------------------------------- MODULE MCRecords ---------------------------------
(* The shadow store against its promise, and the parts that run or record what  *)
(* callers do, each by itself: their instances are small and share this run.    *)
EXTENDS MCShadowStore, Ledger, ShellTasks, ToolSessions, Index, TLC

\* x1 and x2: the callers, writers or participants of each part
CONSTANTS x1, x2, grp, n1, n2, p1, p2

VARIABLE part \* the component whose behaviour this is; they share no state

Alike == Permutations({x1, x2})

T(d, c, s) == [defs |-> d, calls |-> c, size |-> s]
MCTexts == {T({n1}, {}, 1), T({n2}, {n1}, 1), T({n1}, {n2}, 2)}
\* A definition in one file and a call of it in the other; no drops in lazy mode.
IndexStarts == /\ tree[p1].text.defs = {n2} /\ tree[p2].text.calls = {n2}
               /\ drops = (IF mode = "lazy" THEN 0 ELSE MaxDrops)
IndexRests == mode = "fast" /\ drops = 0 /\ \A f \in Paths : tree[f].text = T({n1}, {}, 1)

MCInit ==
  /\ part \in {"promise", "ledger", "shell", "tools", "index"}
  /\ Init /\ LedgerInit /\ ShellInit /\ ToolInit /\ IndexInit
  /\ (part # "promise" => \A f \in Files : real[f] = Absent)
  /\ (part # "index" => IndexRests)
  /\ (part = "index" => IndexStarts)
MCNext ==
  /\ part' = part
  /\ \/ part = "promise" /\ Next /\ UNCHANGED <<ledgerVars, shellVars, toolVars, indexVars>>
     \/ part = "ledger" /\ LedgerNext /\ UNCHANGED <<vars, shellVars, toolVars, indexVars>>
     \/ part = "shell" /\ ShellNext /\ UNCHANGED <<vars, ledgerVars, toolVars, indexVars>>
     \/ part = "tools" /\ ToolNext /\ UNCHANGED <<vars, ledgerVars, shellVars, indexVars>>
     \/ part = "index" /\ IndexNext /\ UNCHANGED <<vars, ledgerVars, shellVars, toolVars>>
MCSpec == MCInit /\ [][MCNext]_<<part, vars, ledgerVars, shellVars, toolVars, indexVars>>
=============================================================================
