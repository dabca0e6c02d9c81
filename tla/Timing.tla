------------------------------- MODULE Timing -------------------------------
(***************************************************************************)
(* Command timing of one rank: the distance tables of timing.cc, their     *)
(* propagation by ChannelState::UpdateTiming to the banks of each scope,   *)
(* BankState::UpdateTiming/cmd_timing_, and the tFAW window four_aw_       *)
(* (UpdateActivationTimes, IsFAWReady).                                    *)
(*                                                                         *)
(* The clock is not a variable.  A command issued at clk sets              *)
(* cmd_timing_[c] to max(cmd_timing_[c], clk + d) and only the test        *)
(* clk >= cmd_timing_[c] reads it, so wait[b][c] holds                     *)
(* max(0, cmd_timing_[c] - clk) and every cycle decrements it.  four_aw_   *)
(* holds the times clk + tFAW in the same way.  One command is issued per  *)
(* cycle, as the controller issues at most one.                            *)
(*                                                                         *)
(* Requests are abstract: an open bank may take a READ or WRITE (a row     *)
(* hit) or a PRECHARGE (a row miss), a closed bank an ACTIVATE.  A pending *)
(* REFab blocks every queue of the rank, and FinishRefresh asks the rank   *)
(* scope dispatch of GetReadyCommand, which may answer PREab.              *)
(***************************************************************************)
EXTENDS Integers, Sequences

CONSTANTS
  BankGroups, BanksPerGroup,
  Burst, AL, RL, WL, WriteDelay,           \* burst_cycle, AL, RL, WL, write_delay
  tCCD_S, tCCD_L, tRTRS, tRTP, tWR, tWTR_S, tWTR_L,
  tRCD, tRAS, tRP, tRC, tRRD_S, tRRD_L, tPPD, tFAW, tRFC,
  PpdProtocol   \* IsGDDR() || protocol is LPDDR4 or DDR5

ASSUME tRC >= tRAS + tRP /\ tFAW > 0 /\ PpdProtocol \in BOOLEAN

Banks == (0..(BankGroups - 1)) \X (0..(BanksPerGroup - 1))
NoBank == <<-1, -1>>
Cmds == {"ACTIVATE", "READ", "WRITE", "PRECHARGE", "PREab", "REFab"}

Max2(a, b) == IF a >= b THEN a ELSE b

(* The distances of the Timing constructor (bankgroups == 1 uses _S)      *)
ReadToReadL   == IF BankGroups = 1 THEN Max2(Burst, tCCD_S) ELSE Max2(Burst, tCCD_L)
ReadToReadS   == Max2(Burst, tCCD_S)
ReadToWrite   == RL + Burst - WL + tRTRS
ReadToPre     == AL + tRTP
WriteToReadL  == IF BankGroups = 1 THEN WriteDelay + tWTR_S ELSE WriteDelay + tWTR_L
WriteToReadS  == WriteDelay + tWTR_S
WriteToWriteL == IF BankGroups = 1 THEN Max2(Burst, tCCD_S) ELSE Max2(Burst, tCCD_L)
WriteToWriteS == Max2(Burst, tCCD_S)
WriteToPre    == WL + Burst + tWR
ActToActL     == IF BankGroups = 1 THEN tRRD_S ELSE tRRD_L
ActToRW       == tRCD - AL

\* One row of a table: the distance to each modelled command (0: no entry)
D(act, rd, wr, pre, preab, ref) ==
  [ACTIVATE |-> act, READ |-> rd, WRITE |-> wr, PRECHARGE |-> pre, PREab |-> preab, REFab |-> ref]
None == D(0, 0, 0, 0, 0, 0)

\* Mutation: a precharge sets no precharge_to_activate on its bank.
SameBankNoTrp(t) ==
  CASE t \in {"PRECHARGE", "PREab"} -> D(0, 0, 0, tPPD, tPPD, tRP)
    [] t = "READ"     -> D(0, ReadToReadL, ReadToWrite, ReadToPre, ReadToPre, 0)
    [] t = "WRITE"    -> D(0, WriteToReadL, WriteToWriteL, WriteToPre, WriteToPre, 0)
    [] t = "ACTIVATE" -> D(tRC, ActToRW, ActToRW, tRAS, tRAS, 0)
    [] t = "REFab"    -> None

\* same_bank[t]
SameBank(t) ==
  CASE t = "READ"     -> D(0, ReadToReadL, ReadToWrite, ReadToPre, ReadToPre, 0)
    [] t = "WRITE"    -> D(0, WriteToReadL, WriteToWriteL, WriteToPre, WriteToPre, 0)
    [] t = "ACTIVATE" -> D(tRC, ActToRW, ActToRW, tRAS, tRAS, 0)
    [] t \in {"PRECHARGE", "PREab"} -> D(tRP, 0, 0, tPPD, tPPD, tRP)
    [] t = "REFab"    -> None

\* other_banks_same_bankgroup[t]
OtherBanksSameBankgroup(t) ==
  CASE t = "READ"     -> D(0, ReadToReadL, ReadToWrite, 0, 0, 0)
    [] t = "WRITE"    -> D(0, WriteToReadL, WriteToWriteL, 0, 0, 0)
    [] t = "ACTIVATE" -> D(ActToActL, 0, 0, 0, 0, 0)
    [] t \in {"PRECHARGE", "PREab"} -> IF PpdProtocol THEN D(0, 0, 0, tPPD, tPPD, 0) ELSE None
    [] t = "REFab"    -> None

\* other_bankgroups_same_rank[t]
OtherBankgroupsSameRank(t) ==
  CASE t = "READ"     -> D(0, ReadToReadS, ReadToWrite, 0, 0, 0)
    [] t = "WRITE"    -> D(0, WriteToReadS, WriteToWriteS, 0, 0, 0)
    [] t = "ACTIVATE" -> D(tRRD_S, 0, 0, 0, 0, 0)
    [] t \in {"PRECHARGE", "PREab"} -> IF PpdProtocol THEN D(0, 0, 0, tPPD, tPPD, 0) ELSE None
    [] t = "REFab"    -> None

\* same_rank[REFab]
SameRankRefab == D(tRFC, 0, 0, 0, 0, tRFC)

(***************************************************************************)
(* ChannelState::UpdateTiming: the row that command t addressed to bank a  *)
(* applies to bank x.  Bank commands and PREab go through                  *)
(* UpdateSameBankTiming (a only), UpdateOtherBanksSameBankgroupTiming and  *)
(* UpdateOtherBankgroupsSameRankTiming; REFab goes through                 *)
(* UpdateSameRankTiming (every bank).                                      *)
(***************************************************************************)
ScopeRow(t, a, x) ==
  CASE t = "REFab"  -> SameRankRefab
    [] x = a        -> SameBank(t)
    [] x[1] = a[1]  -> OtherBanksSameBankgroup(t)
    [] OTHER        -> OtherBankgroupsSameRank(t)

\* BankState::UpdateTiming: cmd_timing_[c] = max(cmd_timing_[c], clk + d)
Raise(w, d) == [c \in Cmds |-> Max2(w[c], d[c])]

\* One cycle passes
Elapse(w) == [c \in Cmds |-> IF w[c] > 0 THEN w[c] - 1 ELSE 0]

UpdateTiming(w, t, a) == [x \in Banks |-> Elapse(Raise(w[x], ScopeRow(t, a, x)))]

(***************************************************************************)
(* four_aw_[rank]: the times clk + tFAW of the last (at most four) ACTs,   *)
(* kept relative to clk like wait.                                         *)
(***************************************************************************)
ElapseSeq(q) == [i \in 1..Len(q) |-> IF q[i] > 0 THEN q[i] - 1 ELSE 0]

\* Mutation: the 5th ACT is allowed while the oldest entry is still live.
IsFAWReadyOffByOne(q) == ~(q # <<>> /\ Head(q) > 0 /\ Len(q) > 4)

\* ChannelState::IsFAWReady (ActivationWindowOk outside GDDR)
IsFAWReady(q) == ~(q # <<>> /\ Head(q) > 0 /\ Len(q) >= 4)

\* Mutation: the expired head is never retired.
UpdateActivationTimesNoErase(q) == ElapseSeq(Append(q, tFAW))

\* ChannelState::UpdateActivationTimes, then one cycle
UpdateActivationTimes(q) ==
  ElapseSeq(Append(IF q # <<>> /\ Head(q) = 0 THEN Tail(q) ELSE q, tFAW))

VARIABLES
  state,       \* BankState::state_ of each bank: "CLOSED" or "OPEN"
  wait,        \* max(0, cmd_timing_[c] - clk) per bank
  fourAw,      \* four_aw_[rank], relative to clk
  refPending,  \* a REFab in refresh_q_
  \* auxiliary, for the properties:
  actAge,      \* clk - t for the last (at most 4) ACTs of the rank, capped at tFAW
  sincePre,    \* per bank, clk - (time its row was last closed), capped at tRP
  late,        \* banks whose row the last command closed before cmd_timing_ allowed
  issued       \* the last command: [type, bank]

vars == <<state, wait, fourAw, refPending, actAge, sincePre, late, issued>>

Age(n, cap) == IF n >= cap THEN cap ELSE n + 1

\* The reference ACT history: the last three ages, and a new ACT if one is issued
Window(h) == IF Len(h) = 4 THEN Tail(h) ELSE h

AgeAll(h) == [i \in 1..Len(h) |-> Age(h[i], tFAW)]

RecordAct(h, act) == AgeAll(IF act THEN Window(h) \o <<0>> ELSE h)

\* The reference time since each bank was closed, after closing the banks cl
RecordClose(cl) == [x \in Banks |-> Age(IF x \in cl THEN 0 ELSE sincePre[x], tRP)]

Init ==
  /\ state = [x \in Banks |-> "CLOSED"]
  /\ wait = [x \in Banks |-> [c \in Cmds |-> 0]]
  /\ fourAw = <<>>
  /\ refPending = FALSE
  /\ actAge = <<>>
  /\ sincePre = [x \in Banks |-> tRP]
  /\ late = {}
  /\ issued = [type |-> "NONE", bank |-> NoBank]

(***************************************************************************)
(* A request's command for bank b (BankState::GetReadyCommand for READ or  *)
(* WRITE): a closed bank needs ACTIVATE, an open one a READ/WRITE on a row *)
(* hit or a PRECHARGE on a miss.  It is ready when clk >= cmd_timing_, an  *)
(* ACTIVATE also when ActivationWindowOk (command_queue/FirstReady).       *)
(* Queues of a rank with a REFab pending are skipped.  The command goes    *)
(* through UpdateTimingAndStates: UpdateState, then UpdateTiming.          *)
(***************************************************************************)
BankCommands(b) ==
  IF state[b] = "CLOSED" THEN {"ACTIVATE"} ELSE {"READ", "WRITE", "PRECHARGE"}

IssueBankCommand(b, t) ==
  /\ ~refPending
  /\ t \in BankCommands(b)
  /\ wait[b][t] = 0
  /\ t = "ACTIVATE" => IsFAWReady(fourAw)
  /\ state' = [state EXCEPT ![b] = CASE t = "ACTIVATE"  -> "OPEN"
                                    [] t = "PRECHARGE" -> "CLOSED"
                                    [] OTHER           -> @]
  /\ wait' = UpdateTiming(wait, t, b)
  /\ fourAw' = IF t = "ACTIVATE" THEN UpdateActivationTimes(fourAw) ELSE ElapseSeq(fourAw)
  /\ actAge' = RecordAct(actAge, t = "ACTIVATE")
  /\ sincePre' = RecordClose(IF t = "PRECHARGE" THEN {b} ELSE {})
  /\ late' = {}
  /\ issued' = [type |-> t, bank |-> b]
  /\ UNCHANGED refPending

(***************************************************************************)
(* FinishRefresh: the rank scope of ChannelState::GetReadyCommand.  Banks  *)
(* are asked in order (bankgroup, then bank); a bank whose command is not  *)
(* ready is skipped; the first bank that answers PREab (open, and its own  *)
(* cmd_timing_[PREab] reached) gets the PREab; REFab goes out when every   *)
(* bank answers REFab.  ChannelState::UpdateState hands a rank command to  *)
(* every bank: PREab closes every open bank.  UpdateTiming applies         *)
(* same_bank[PREab] to the addressed bank only.                            *)
(***************************************************************************)
PreReady == {x \in Banks : state[x] = "OPEN" /\ wait[x]["PREab"] = 0}

FirstInOrder(S) == CHOOSE x \in S : \A y \in S : x[1] < y[1] \/ (x[1] = y[1] /\ x[2] <= y[2])

RefabReady == \A x \in Banks : state[x] = "CLOSED" /\ wait[x]["REFab"] = 0

IssuePreab ==
  /\ refPending
  /\ PreReady # {}
  /\ state' = [x \in Banks |-> "CLOSED"]
  /\ wait' = UpdateTiming(wait, "PREab", FirstInOrder(PreReady))
  /\ fourAw' = ElapseSeq(fourAw)
  /\ actAge' = RecordAct(actAge, FALSE)
  /\ sincePre' = RecordClose({x \in Banks : state[x] = "OPEN"})
  /\ late' = {x \in Banks : state[x] = "OPEN" /\ wait[x]["PREab"] > 0}
  /\ issued' = [type |-> "PREab", bank |-> FirstInOrder(PreReady)]
  /\ UNCHANGED refPending

\* Mutation: the REFab issued stays in refresh_q_ (RankNeedRefresh(false)
\* is not called).
IssueRefabKeepsPending ==
  /\ refPending
  /\ PreReady = {}
  /\ RefabReady
  /\ refPending' = TRUE
  /\ wait' = UpdateTiming(wait, "REFab", FirstInOrder(Banks))
  /\ fourAw' = ElapseSeq(fourAw)
  /\ actAge' = RecordAct(actAge, FALSE)
  /\ sincePre' = RecordClose({})
  /\ late' = {}
  /\ issued' = [type |-> "REFab", bank |-> FirstInOrder(Banks)]
  /\ UNCHANGED state

IssueRefab ==
  /\ refPending
  /\ PreReady = {}
  /\ RefabReady
  /\ refPending' = FALSE
  /\ wait' = UpdateTiming(wait, "REFab", FirstInOrder(Banks))
  /\ fourAw' = ElapseSeq(fourAw)
  /\ actAge' = RecordAct(actAge, FALSE)
  /\ sincePre' = RecordClose({})
  /\ late' = {}
  /\ issued' = [type |-> "REFab", bank |-> FirstInOrder(Banks)]
  /\ UNCHANGED state

\* A cycle with no command: no request ready, or FinishRefresh found none
Idle ==
  /\ refPending => (PreReady = {} /\ ~RefabReady)
  /\ wait' = [x \in Banks |-> Elapse(wait[x])]
  /\ fourAw' = ElapseSeq(fourAw)
  /\ actAge' = RecordAct(actAge, FALSE)
  /\ sincePre' = RecordClose({})
  /\ late' = {}
  /\ issued' = [type |-> "NONE", bank |-> NoBank]
  /\ UNCHANGED <<state, refPending>>

\* The refresh generator queues a REFab (RankNeedRefresh)
NeedRefresh ==
  /\ ~refPending
  /\ refPending' = TRUE
  /\ late' = {}
  /\ issued' = [type |-> "NONE", bank |-> NoBank]
  /\ UNCHANGED <<state, wait, fourAw, actAge, sincePre>>

Next ==
  \/ \E b \in Banks, t \in Cmds : IssueBankCommand(b, t)
  \/ IssuePreab
  \/ IssueRefab
  \/ Idle
  \/ NeedRefresh

\* One controller cycle: ClockTick runs every clock, whether it issues or not
Cycle ==
  \/ \E b \in Banks, t \in Cmds : IssueBankCommand(b, t)
  \/ IssuePreab
  \/ IssueRefab
  \/ Idle

Spec == Init /\ [][Next]_vars

FairSpec == Spec /\ WF_vars(Cycle)

(***************************************************************************)
(* Properties                                                              *)
(***************************************************************************)
TypeOK ==
  /\ state \in [Banks -> {"CLOSED", "OPEN"}]
  /\ wait \in [Banks -> [Cmds -> Nat]]
  /\ fourAw \in Seq(0..tFAW) /\ Len(fourAw) <= 4
  /\ refPending \in BOOLEAN
  /\ late \subseteq Banks

(* Spec §8: at most four ACTs of a rank in any tFAW window.  The window    *)
(* four_aw_ is kept by UpdateActivationTimes (erase the head only when it  *)
(* expired) and read by IsFAWReady (head and size): every ACT is at least  *)
(* tFAW after the fourth ACT before it, by the reference history actAge.   *)
FawWindow ==
  [][issued'.type = "ACTIVATE" => Len(actAge) < 4 \/ actAge[1] >= tFAW]_vars

(* Spec §4.4 precharge_to_activate: a bank is activated at least tRP after *)
(* its row was closed, whether by its own PRECHARGE or by a PREab that     *)
(* FinishRefresh addressed to another bank (UpdateTiming gives tRP only to *)
(* the addressed bank; the REFab that must follow covers the others).      *)
PrechargeToActivate ==
  [][issued'.type = "ACTIVATE" => sincePre[issued'.bank] >= tRP]_vars

(* A refresh the generator queued is issued: while the REFab waits, the    *)
(* rank's queues are skipped, so the scan precharges the open banks one    *)
(* PREab after another as their timing allows, no bank reopens, and the    *)
(* REFab goes out once every bank's cmd_timing_[REFab] has passed.         *)
RefreshIssued == refPending ~> ~refPending

(* Spec §8: every issued command satisfies clk >= cmd_timing_[type] of     *)
(* each bank it changes.  A PREab closes every open bank, but the rank     *)
(* scan checks cmd_timing_[PREab] (tRAS after ACT, write recovery after    *)
(* WRITE) of the addressed bank only.                                      *)
IssuedOnTime == late = {}

====
