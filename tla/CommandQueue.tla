---------------------------- MODULE CommandQueue ----------------------------
(***************************************************************************)
(* The per-bank command queues of src/DRAMsim3/src/command_queue.cc over   *)
(* one rank of ChannelState, driven by the controller's clock tick.        *)
(*                                                                         *)
(* One Tick is one controller cycle: finish a pending refresh, else finish *)
(* a pending RFM/DRFM, else GetCommandToIssue (round robin over the        *)
(* queues, first ready entry of a queue); the command found is issued      *)
(* with ChannelState::UpdateTimingAndStates.  GetReadyCommand's side       *)
(* effects (PreACT, RFM and DRFM requests) happen for every entry it is    *)
(* asked about during the cycle, in the order the code asks.              *)
(*                                                                         *)
(* The controller (controller.cc) and the refresh generator (refresh.cc)   *)
(* are not in the repository: the order of FinishRefresh / FinishRFM /     *)
(* GetCommandToIssue in a cycle follows the data flow of the spec and the  *)
(* asserts at the top of FinishRefresh and FinishRFM; refreshes and        *)
(* requests arrive as environment actions, bounded by MaxRefreshes and     *)
(* MaxReqs.  Queue structure is PER_BANK.                                  *)
(***************************************************************************)
EXTENDS ChannelState

CONSTANTS
  Cols,          \* column ids of requests
  ReqTypes,      \* the request types the controller enqueues
  QueueSize,     \* cmd_queue_size
  RefreshCmd,    \* the refresh command the refresh policy asks for
  MaxReqs,       \* bound: requests added over a behaviour
  MaxRefreshes,  \* bound: refreshes requested over a behaviour
  ParaAlways     \* TRUE when para_prob = 1.0 (every draw is below it)

ASSUME ReqTypes \subseteq ReadWrite /\ RefreshCmd \in Refreshes
ASSUME ParaAlways \in BOOLEAN

VARIABLES
  ch,            \* the ChannelState record
  queues,        \* queues_: queue index -> sequence of requests
  queueIdx,      \* queue_idx_, the round-robin cursor
  isInRef,       \* is_in_ref_
  refQIndices,   \* ref_q_indices_
  isInRfm,       \* is_in_rfm_
  rfmQIndices,   \* rfm_q_indices_
  fault,         \* some bank reached AbruptExit in UpdateState
  reqsLeft,      \* requests still to arrive (bound)
  refsLeft       \* refreshes still to be requested (bound)

vars == <<ch, queues, queueIdx, isInRef, refQIndices, isInRfm, rfmQIndices,
          fault, reqsLeft, refsLeft>>

NumQueues == Cardinality(Banks)
QueueIds == 0..(NumQueues - 1)

\* CommandQueue::GetQueueIndex (PER_BANK, rank 0)
QueueIndex(g, k) == g * BanksPerGroup + k

\* GetRefQIndices and GetRFMQIndices: the queues a refresh/RFM blocks
BlockedQueues(c) == {QueueIndex(b[1], b[2]) : b \in Scope(c)}

Coins == IF ParaAlways THEN {TRUE} ELSE BOOLEAN

\* The inputs of one cycle (see ChannelState)
\* whether tABO_act has passed since the alert; read only while alert_n is set
AboDue == IF AlertMode = 1 THEN BOOLEAN ELSE {FALSE}

Inputs == [late : SUBSET Banks, fawOk : BOOLEAN, aboDue : AboDue,
           coin : [Banks -> Coins], pick : [Banks -> 1..MintWindow]]

\* The inputs of a cycle in which every timing constraint is met, tABO_act
\* included
OnTime == {in \in Inputs : in.late = {} /\ in.fawOk /\ in.aboDue = (AlertMode = 1)}

IsRead(c)  == c.type \in {"READ", "READ_PRECHARGE"}
IsWrite(c) == c.type \in {"WRITE", "WRITE_PRECHARGE"}
SameBank(c, d) == c.bg = d.bg /\ c.bank = d.bank

(***************************************************************************)
(* CommandQueue::ArbitratePrecharge for the k-th entry of queue q          *)
(***************************************************************************)
ArbitratePrecharge(s, q, k) ==
  LET c == q[k]
      bk == s.bank[<<c.bg, c.bank>>]
      pendingRowHits == \E j \in k..Len(q) : q[j].row = bk.openRow /\ SameBank(q[j], c)
  IN /\ ~\E j \in 1..(k - 1) : SameBank(q[j], c)
     /\ ~pendingRowHits \/ bk.rowHits >= 4

\* CommandQueue::HasRWDependency: a write waits for an earlier read of it
HasRWDependency(q, k) ==
  \E j \in 1..(k - 1) : /\ IsRead(q[j])
                        /\ q[j].row = q[k].row /\ q[j].col = q[k].col
                        /\ SameBank(q[j], q[k])

(***************************************************************************)
(* CommandQueue::GetFirstReadyInQueue from the k-th entry on: a ready      *)
(* Hydra command is taken before the entry is looked at.                   *)
(***************************************************************************)
RECURSIVE FirstReady(_, _, _, _)
FirstReady(s, q, k, in) ==
  IF k > Len(q) THEN [cmd |-> NoCmd, s |-> s]
  ELSE LET h == GetReadyHydraCommand(s, in)
           r == GetReadyCommand(h.s, q[k], in)
       IN IF h.cmd.type # NONE THEN h
          ELSE IF \/ r.cmd.type = NONE
                  \/ r.cmd.type = "PRECHARGE" /\ ~ArbitratePrecharge(r.s, q, k)
                  \/ IsWrite(r.cmd) /\ HasRWDependency(q, k)
          THEN FirstReady(r.s, q, k + 1, in)
          ELSE r

(***************************************************************************)
(* One controller cycle works on a record t: the channel s, the command    *)
(* found so far, the cursor idx and the refresh/RFM progress flags.        *)
(***************************************************************************)

\* CommandQueue::GetCommandToIssue from its i-th iteration on
RECURSIVE IssueLoop(_, _, _)
IssueLoop(t, i, in) ==
  IF i > NumQueues THEN t
  ELSE LET idx == (t.idx + 1) % NumQueues
           t1  == [t EXCEPT !.idx = idx]
       IN IF \/ t.inRef /\ idx \in t.refIdx
             \/ t.inRfm /\ idx \in t.rfmIdx
          THEN IssueLoop(t1, i + 1, in)
          ELSE LET r == FirstReady(t.s, queues[idx], 1, in)
               IN IF r.cmd.type # NONE
                  THEN [t1 EXCEPT !.cmd = r.cmd, !.s = r.s]
                  ELSE IssueLoop([t1 EXCEPT !.s = r.s], i + 1, in)

\* CommandQueue::FinishRefresh: the pending refresh, or the precharge it needs
FinishRefresh(t, in) ==
  LET ref  == Head(t.s.refreshQ)
      r    == GetReadyCommand(t.s, ref, in)
      done == r.cmd.type \in Refreshes
  IN [t EXCEPT !.s = r.s, !.cmd = r.cmd, !.inRef = ~done,
               !.refIdx = IF done THEN {} ELSE IF t.inRef THEN @ ELSE BlockedQueues(ref)]

\* CommandQueue::FinishRFM: the pending RFM or DRFM, or the precharge it needs
FinishRFM(t, in) ==
  LET rfm  == Head(t.s.rfmQ)
      r    == GetReadyCommand(t.s, rfm, in)
      done == r.cmd.type \in RFMs \cup DRFMs
  IN [t EXCEPT !.s = r.s, !.cmd = r.cmd, !.inRfm = ~done,
               !.rfmIdx = IF done THEN {} ELSE IF t.inRfm THEN @ ELSE BlockedQueues(rfm)]

\* CommandQueue::EraseRWCommand: the first entry with the same address and
\* type; a Hydra command (hex_addr -1) is in no queue
EraseRWCommand(qs, c) ==
  LET qi == QueueIndex(c.bg, c.bank)
      i  == SelectInSeq(qs[qi], LAMBDA e : e.type = c.type /\ e.row = c.row /\ e.col = c.col)
  IN IF i = 0 THEN qs ELSE [qs EXCEPT ![qi] = RemoveAt(@, i)]

(***************************************************************************)
(* The controller cycle: FinishRefresh when a refresh waits and no RFM is  *)
(* in progress; if that yields nothing, FinishRFM when an RFM/DRFM waits   *)
(* and no refresh is in progress; if that yields nothing,                  *)
(* GetCommandToIssue.  The command found is issued with                    *)
(* ChannelState::UpdateTimingAndStates; a read or write leaves its queue.  *)
(***************************************************************************)
\* The three calls of a cycle, each on the record the previous one left
RefreshStep(t, in) ==
  IF t.s.refreshQ # <<>> /\ ~t.inRfm THEN FinishRefresh(t, in) ELSE t
RFMStep(t, in) ==
  IF t.cmd.type = NONE /\ t.s.rfmQ # <<>> /\ ~t.inRef THEN FinishRFM(t, in) ELSE t
QueueStep(t, in) ==
  IF t.cmd.type = NONE THEN IssueLoop(t, 1, in) ELSE t

Cycle(in) ==
  QueueStep(RFMStep(RefreshStep([s |-> ch, cmd |-> NoCmd, idx |-> queueIdx,
                                 inRef |-> isInRef, refIdx |-> refQIndices,
                                 inRfm |-> isInRfm, rfmIdx |-> rfmQIndices], in), in), in)

\* The controller variables once command t.cmd found by a cycle is issued
Issue(t) ==
  [ch |-> IF t.cmd.type = NONE THEN t.s ELSE UpdateTimingAndStates(t.s, t.cmd),
   fault |-> fault \/ (t.cmd.type # NONE /\ ~Handled(t.s, t.cmd)),
   queues |-> IF t.cmd.type \in ReadWrite THEN EraseRWCommand(queues, t.cmd) ELSE queues,
   queueIdx |-> t.idx, isInRef |-> t.inRef, refQIndices |-> t.refIdx,
   isInRfm |-> t.inRfm, rfmQIndices |-> t.rfmIdx]

AfterCycle(in) == Issue(Cycle(in))

Controller == [ch |-> ch, fault |-> fault, queues |-> queues, queueIdx |-> queueIdx,
               isInRef |-> isInRef, refQIndices |-> refQIndices,
               isInRfm |-> isInRfm, rfmQIndices |-> rfmQIndices]

Tick(in) ==
  \E t \in {AfterCycle(in)} :
    /\ ch' = t.ch /\ fault' = t.fault /\ queues' = t.queues
    /\ queueIdx' = t.queueIdx
    /\ isInRef' = t.isInRef /\ refQIndices' = t.refQIndices
    /\ isInRfm' = t.isInRfm /\ rfmQIndices' = t.rfmQIndices
    /\ UNCHANGED <<reqsLeft, refsLeft>>

(***************************************************************************)
(* The environment: CommandQueue::AddCommand and the refresh generator's   *)
(* ChannelState::*NeedRefresh(..., true).                                  *)
(***************************************************************************)
AddCommand(g, k, type, row, col) ==
  /\ reqsLeft > 0
  /\ Len(queues[QueueIndex(g, k)]) < QueueSize
  /\ queues' = [queues EXCEPT ![QueueIndex(g, k)] = Append(@, Cmd(type, g, k, row, col))]
  /\ reqsLeft' = reqsLeft - 1
  /\ UNCHANGED <<ch, queueIdx, isInRef, refQIndices, isInRfm, rfmQIndices, fault, refsLeft>>

NeedRefresh(g, k) ==
  /\ refsLeft > 0
  /\ ch' = [ch EXCEPT !.refreshQ = Append(@,
              CASE RefreshCmd = "REFab" -> Cmd("REFab", -1, -1, -1, -1)
                [] RefreshCmd = "REFsb" -> Cmd("REFsb", -1, k, -1, -1)
                [] OTHER                -> Cmd("REFRESH_BANK", g, k, -1, -1))]
  /\ refsLeft' = refsLeft - 1
  /\ UNCHANGED <<queues, queueIdx, isInRef, refQIndices, isInRfm, rfmQIndices, fault, reqsLeft>>

Init ==
  /\ ch = InitChannel
  /\ queues = [i \in QueueIds |-> <<>>]
  /\ queueIdx = 0
  /\ isInRef = FALSE /\ refQIndices = {}
  /\ isInRfm = FALSE /\ rfmQIndices = {}
  /\ fault = FALSE
  /\ reqsLeft = MaxReqs
  /\ refsLeft = MaxRefreshes

Next ==
  \/ \E in \in Inputs : Tick(in)
  \/ \E b \in Banks, type \in ReqTypes, row \in Rows, col \in Cols :
       AddCommand(b[1], b[2], type, row, col)
  \/ \E b \in Banks : NeedRefresh(b[1], b[2])

\* The controller ticks every cycle and every timing constraint is a finite
\* delay, so a cycle in which all of them are met keeps coming:
\* WF_vars(\E in \in OnTime : Tick(in)).  Tick(in) is deterministic, so it
\* is enabled as a non-stuttering step exactly when AfterCycle(in) differs
\* from the current controller state; the weak fairness is written out with
\* that state predicate in place of ENABLED.
TickMoves == \E in \in OnTime : AfterCycle(in) # Controller

Fairness == []<>(~TickMoves) \/ []<><<\E in \in OnTime : Tick(in)>>_vars

Spec == Init /\ [][Next]_vars /\ Fairness

(***************************************************************************)
(* Properties                                                              *)
(***************************************************************************)
Req == [type : ReadWrite, bg : Nat, bank : Nat, row : Rows, col : Cols]
Pending == [type : CmdTypes, bg : Int, bank : Int, row : Int, col : Int]
BankType ==
  [state : {"CLOSED", "OPEN", "SREF"}, openRow : Rows \cup {NoRow},
   rowHits : 0..RowHitSat, raa : Nat, drfmQ : Seq(DrfmEntry),
   drfmIssued : BOOLEAN, mintRows : Seq(Rows),
   graphQ : Seq([row : Rows, ctr : Nat]), spill : Nat, refIdx : Rows,
   gct : [GctIds -> Nat], gctValid : [GctIds -> BOOLEAN], counts : [Rows -> Nat],
   acts : [Rows -> Nat], mitigOk : BOOLEAN, prac : [Rows -> Nat],
   moatMax : Rows \cup {NoRow}]

TypeOK ==
  /\ ch \in [bank : [Banks -> BankType], rfmQ : Seq(Pending),
              refreshQ : Seq(Pending), announced : [Banks -> BOOLEAN],
              rcc : [SetIds -> [way : [WayIds -> [addr : Nat, valid : BOOLEAN, dirty : BOOLEAN]],
                                order : Seq(WayIds)]],
              hydraRdQ : Seq(Pending), hydraWbQ : Seq(Pending), wbDraining : BOOLEAN,
              rccLost : BOOLEAN,
              tusc : [TuscIds -> Nat], tuscPrev : [TuscIds -> Nat], tuscQ : Seq(TuscIds),
              fgr : Nat, refIdx : 0..(Refchunks - 1),
              alertN : BOOLEAN, numActsAbo : 0..AboDelayActs]
  /\ queues \in [QueueIds -> Seq(Req)]
  /\ queueIdx \in QueueIds
  /\ isInRef \in BOOLEAN /\ refQIndices \subseteq QueueIds
  /\ isInRfm \in BOOLEAN /\ rfmQIndices \subseteq QueueIds
  /\ fault \in BOOLEAN
  /\ reqsLeft \in 0..MaxReqs /\ refsLeft \in 0..MaxRefreshes

\* Every command the controller issues is one that every bank of its scope
\* accepts in BankState::UpdateState: the refresh, RFM and DRFM paths close
\* the open rows (PRECHARGE/PREab/PREsb) before the command itself is ready,
\* so no issued command reaches AbruptExit.
NoAbruptExit == ~fault

\* A bank that ChannelState::GetReadyCommand marked drfm_issued_ (and so
\* refuses every ACTIVATE) has a DRFM of its scope waiting in rfm_q_: the
\* Need*DRFM call that follows MarkDRFMIssued must not be swallowed by the
\* duplicate check against a pending RFM of the same rank or bankset.
DrfmIssuedCovered ==
  \A b \in Banks : ch.bank[b].drfmIssued =>
     \E i \in 1..Len(ch.rfmQ) : ch.rfmQ[i].type \in DRFMs /\ b \in Scope(ch.rfmQ[i])

\* The DRFM sampler drfm_q_ never holds more than drfm_qsize entries
\* (spec section 3, drfm_q.len <= drfm_qsize; the bound the asserts in
\* mint_preact and para_preact are meant to keep).  DREAM's dream_preact
\* inserts into every bank with insert_drfm, which checks no bound.
SamplerBounded == \A b \in Banks : Len(ch.bank[b].drfmQ) <= DrfmQSize

\* Every activation PreACT announces to the mitigators is issued in the same
\* cycle: an ACTIVATE suppressed after PreACT ran would be announced again
\* when the request is retried.
PreActIssued == \A b \in Banks : ~ch.announced[b]

\* Every request added to a command queue is eventually issued.
RequestsServed == \A i \in QueueIds : queues[i] # <<>> ~> queues[i] = <<>>

\* A bank marked drfm_issued_ eventually gets its DRFM and may activate again.
DrfmCompletes == \A b \in Banks : ch.bank[b].drfmIssued ~> ~ch.bank[b].drfmIssued

\* Every refresh the refresh generator requests is eventually issued.
RefreshServed == ch.refreshQ # <<>> ~> ch.refreshQ = <<>>

\* graphene_mitig's assert holds on every DRFM: the row drfm_mitig returns
\* is the row of the maximum graphene_q_ entry it erases.  drfm_mitig
\* returns max_entry->rowid after erasing max_entry, so the assert reads
\* the entry that moved into the erased slot.
GrapheneMitigAssert == \A b \in Banks : ch.bank[b].mitigOk

\* Graphene samples a row once per crossing of graphene_th (spec, section 8,
\* scenario 5: A,A,A,A,B,B,B,C yields one insertion of A): the sampler
\* never holds the same row twice.
GrapheneSampledOnce ==
  \A b \in Banks : \A i, j \in 1..Len(ch.bank[b].drfmQ) :
     i < j => ch.bank[b].drfmQ[i].row # ch.bank[b].drfmQ[j].row

\* The rows bank bk has queued for DRFM
Sampled(bk) == {bk.drfmQ[i].row : i \in 1..Len(bk.drfmQ)}

\* No row escapes Graphene (spec, section 8, round-trip: activations that
\* exceed an engine's threshold produce a DRFM insertion for the aggressor
\* row): a row PreACT has announced graphene_th times since its last
\* mitigation (or the last tracker reset) is in drfm_q_.  graphene_preact's
\* table must keep counting it although graphene_mitig erases entries.
GrapheneNoEscape ==
  \A b \in Banks, r \in Rows : ch.bank[b].acts[r] >= GrapheneTh => r \in Sampled(ch.bank[b])

\* No row escapes DREAM (spec, section 8, round-trip): a row PreACT has
\* announced dream_th times in one bank since that bank last mitigated it
\* (or reset its trackers) is in that bank's drfm_q_.  dream_preact counts
\* the row in the shared counter get_tusc_idx gives it and, at the
\* threshold, inserts into every bank the rows get_row_idx maps that
\* counter to; dream_mitig zeroes a counter whose rows other banks may
\* still be activating.
DreamNoEscape ==
  \A b \in Banks, r \in Rows : ch.bank[b].acts[r] >= DreamThreshold => r \in Sampled(ch.bank[b])

\* What Hydra's tables say of row r: the group's GCT count while the group
\* is valid, else the row's own counter
HydraEstimate(bk, r) ==
  IF bk.gctValid[r % HydraGctSize] THEN bk.gct[r % HydraGctSize] ELSE bk.counts[r]

\* Hydra never under-counts a row (what the bound of spec section 8 on
\* ACTs between refreshes rests on): the activations PreACT announced for a
\* row since its last mitigation (or the last tracker reset) are at most
\* what the GCT and the per-row counters hold for it.  Seeding a group's
\* rows at hydra_gct_th on overflow, and hydra_mitig clearing the counter
\* of the row drfm_mitig returns, must both keep this.
HydraCountsSound ==
  \A b \in Banks, r \in Rows : ch.bank[b].acts[r] <= HydraEstimate(ch.bank[b], r)

\* Every dirty RCC line that is evicted is written back: hydra_check_rcc
\* returns the evicted line's address and the channel queues HydraWB for
\* it (spec, section 9: dirty eviction surfaces the evicted hex_addr).
RccNoLostWriteback == ~ch.rccLost

\* An RFMab is waiting in rfm_q_
RfmabQueued == \E i \in 1..Len(ch.rfmQ) : ch.rfmQ[i].type = "RFMab"

\* The ABO flow never drops an alert (spec section 4, step 2, and the ABO
\* paragraph): once num_acts_abo_ has reached ABO_delay_acts, a bank whose
\* MOAT-tracked row is above moatth has alert_n raised or the RFMab that
\* GetReadyCommand synthesised for it waiting in rfm_q_.  The ACT that
\* pushes the row over moatth must poll its bank after counting itself in
\* num_acts_abo_, and the back-off must queue the RFMab before resetting
\* alert_n, against RankNeedRFM's duplicate check and the refreshes and
\* RAA-driven RFMs that interleave with it.
AlertNotLost ==
  (\E b \in Banks : CheckAlert(ch.bank[b])) /\ ch.numActsAbo >= AboDelayActs
     => ch.alertN \/ RfmabQueued


\* MOAT tracks the row with the maximum PRAC count (spec, section 2): no row
\* of a bank has a PRAC count above that of the tracked row, and none is
\* above moatth while nothing is tracked.  moat_mitig bumps the rows within
\* two of the mitigated one and forgets the tracker; only moat_act, on the
\* next ACT of a row, sets it again.
MoatTracked ==
  \A b \in Banks, r \in Rows :
     LET bk == ch.bank[b] IN
       IF bk.moatMax = NoRow THEN bk.prac[r] <= MoatTh ELSE bk.prac[r] <= bk.prac[bk.moatMax]

\* A raised alert is eventually served (spec, section 4, ABO: after tABO_act
\* clocks an RFMab is synthesized): alert_n is reset only by the back-off
\* in the bank scope of GetReadyCommand.
AlertServed == ch.alertN ~> ~ch.alertN

=============================================================================
