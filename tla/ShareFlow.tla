------------------------------ MODULE ShareFlow ------------------------------
(* A page that shares or receives, and command lines that publish, share and  *)
(* get, around one registry of shares.                                      *)
EXTENDS PageRuntime, CoordinatorClient

CONSTANT
  MaxStarts      \* attempts and commands that are started together

ASSUME FlowAssumption ==
  /\ MaxAttempts \in Nat /\ MaxCommands \in Nat /\ MaxStarts \in Nat
  /\ Attempt \cup {NodeCode} \subseteq Code /\ NodeCode \notin Attempt
  /\ PageFile \in File /\ OnlineFile \in File \cup {NoHint} /\ "none" \notin File

flow == <<page, clients, registry>>

FlowInit == RegistryInit /\ PageInit /\ ClientInit

MayStart ==
  Cardinality({a \in Attempt : stage[a] # "none"}) + Cardinality({k \in Command : run[k] # Idle}) < MaxStarts

UserCommand(k) ==
  \/ \E kind1 \in Kind \ {"get", "files"}, file \in File : StartCommand(k, kind1, file, NodeCode)
  \/ \E kind2 \in {"files", "node"} : StartCommand(k, kind2, "none", NodeCode)
  \/ \E code \in Code : StartCommand(k, "get", "none", code)

FlowNext ==
  \/ MayStart /\ \E a \in Attempt : UserStep(a) /\ UNCHANGED clients
  \/ MayStart /\ \E k \in Command : UserCommand(k) /\ UNCHANGED page
  \/ PageStep /\ UNCHANGED clients
  \/ \E k \in Command : CommandStep(k) /\ UNCHANGED page
  \/ \E c \in Code : Expire(c) /\ UNCHANGED <<page, clients>>

FlowSpec == FlowInit /\ [][FlowNext]_flow

(* Promises of the browser settle, requests of the command line time out, and   *)
(* a transfer that makes no progress fails after a while.                    *)
FairFlowSpec ==
  /\ FlowSpec
  /\ \A a \in Attempt : WF_flow(AttemptStep(a) /\ UNCHANGED clients)
                       /\ WF_flow(TransferEnds(a) /\ UNCHANGED clients)
  /\ \A d \in Attempt \cup {Closing} : WF_flow(PartReleased(d) /\ UNCHANGED clients)
  /\ \A k \in Command : WF_flow(CommandStep(k) /\ UNCHANGED page)

FlowTypeOK == RegistryTypeOK /\ PageTypeOK /\ ClientTypeOK

(* The states of the three parts, and the runtimes of the page.              *)
PageIsSound == FlowTypeOK /\ RuntimesAreHeld

(* What is superseded is released, and every command ends.                   *)
EverythingEnds == SupersededIsReleased /\ CommandEnds
=============================================================================
