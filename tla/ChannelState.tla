---------------------------- MODULE ChannelState ----------------------------
(***************************************************************************)
(* One rank of src/DRAMsim3/src/channel_state.cc: the banks, the refresh   *)
(* queue refresh_q_ and the RFM/DRFM queue rfm_q_, the scope-dispatching   *)
(* GetReadyCommand with its DRFM scheduling, and UpdateState.              *)
(*                                                                         *)
(* The channel is a record s; GetReadyCommand may change it (it calls      *)
(* PreACT and the Need* functions through const_cast), so it returns       *)
(* [cmd |-> command, s |-> channel].  A command is a record                *)
(* [type, bg, bank, row, col]; -1 is the "don't care" of an Address.       *)
(* The inputs of one cycle are a record in:                                *)
(*   in.late   the banks that fail their timing test this cycle,           *)
(*   in.fawOk  the result of ActivationWindowOk (tFAW) this cycle,         *)
(*   in.coin   per bank, whether PARA's random draw is below para_prob,    *)
(*   in.pick   per bank, the index MINT's rand() chooses.                  *)
(* Hydra's row-counter cache (config_.hydra_rcc, an LRUCache) is held in   *)
(* the channel record with Hydra's read and writeback queues, DREAM's      *)
(* counter table tusc_ with tusc_prev_, tusc_q_ and the refresh cursor     *)
(* (fgr_counter_, ref_idx_), and the ABO state alert_n, num_acts_abo_.     *)
(* in.aboDue says whether clk > tABO_act + last_alert_clk_ this cycle.    *)
(* ABACUS is disabled (abacus_mode 0): its branches are then no-ops.      *)
(***************************************************************************)
EXTENDS BankState, LruCache

CONSTANTS
  BankGroups,      \* config bankgroups
  BanksPerGroup,   \* config banks_per_group
  DrfmPolicy,      \* drfm_policy: 0 eager, 1 lazy
  HydraWbqSize,    \* hydra_wbq_size
  DreamPolicy,     \* dream_policy: 0 set-associative, 1 staggered
  DreamTh,         \* dream_th
  DreamK,          \* dream_k: rows per counter
  DreamReset,      \* dream_reset: refchunks per counter shard
  DreamPrevEnable, \* dream_prev_enable
  Refchunks,       \* refchunks
  Fgr,             \* fgr
  AlertMode,       \* alert_mode
  AboDelayActs     \* ABO_delay_acts

ASSUME DrfmPolicy \in 0..1 /\ HydraWbqSize \in Nat
ASSUME DreamPolicy \in 0..1 /\ DreamK \in Nat \ {0} /\ DreamTh \in Nat \ {0}
ASSUME Refchunks \in Nat \ {0} /\ DreamReset \in 1..Refchunks
ASSUME DreamPrevEnable \in BOOLEAN /\ Fgr \in BOOLEAN
ASSUME AlertMode \in 0..1 /\ AboDelayActs \in Nat

Banks == (0..(BankGroups - 1)) \X (0..(BanksPerGroup - 1))

\* The order of the nested bankgroup/bank loops
BankOrder == [i \in 1..Cardinality(Banks) |->
                <<(i - 1) \div BanksPerGroup, (i - 1) % BanksPerGroup>>]

RankCmds == {"REFab", "RFMab", "DRFMab", "SREF_ENTER", "SREF_EXIT", "PREab"}
SbCmds   == {"REFsb", "RFMsb", "DRFMsb", "PREsb"}

Cmd(type, bg, bank, row, col) ==
  [type |-> type, bg |-> bg, bank |-> bank, row |-> row, col |-> col]
NoCmd == Cmd(NONE, -1, -1, -1, -1)

\* The banks a command of each scope applies to
Scope(c) ==
  IF c.type \in RankCmds THEN Banks
  ELSE IF c.type \in SbCmds THEN {b \in Banks : b[2] = c.bank}
  ELSE {<<c.bg, c.bank>>}

\* DREAM's counter table: tusc_size_ = rows / dream_k counters
TuscSize == NumRows \div DreamK
TuscIds == 0..(TuscSize - 1)

\* rccLost is auxiliary: a dirty RCC line was evicted and no writeback queued
InitChannel ==
  [bank |-> [b \in Banks |-> InitBank], rfmQ |-> <<>>, refreshQ |-> <<>>,
   announced |-> [b \in Banks |-> FALSE],
   rcc |-> InitCache, hydraRdQ |-> <<>>, hydraWbQ |-> <<>>, wbDraining |-> FALSE,
   rccLost |-> FALSE,
   tusc |-> [i \in TuscIds |-> 0], tuscPrev |-> [i \in TuscIds |-> 0], tuscQ |-> <<>>,
   fgr |-> 0, refIdx |-> 0, alertN |-> FALSE, numActsAbo |-> 0]

(***************************************************************************)
(* The Need* functions.  need = TRUE appends (RFM and DRFM requests only   *)
(* when no entry of rfm_q_ matches); need = FALSE erases the first entry   *)
(* that matches.  An entry matches on the fields the function compares.   *)
(***************************************************************************)
\* Whether entry e matches a Need* call of scope kind for bankgroup g, bank k
Matches(e, kind, g, k) ==
  CASE kind = "bank"    -> e.bg = g /\ e.bank = k   \* BankNeed*
    [] kind = "bankset" -> e.bank = k                \* BanksetNeed*
    [] OTHER            -> TRUE                      \* RankNeed*, one rank

EraseFirst(q, kind, g, k) ==
  LET i == SelectInSeq(q, LAMBDA e : Matches(e, kind, g, k))
  IN IF i = 0 THEN q ELSE RemoveAt(q, i)

AddUnlessPresent(q, e, kind, g, k) ==
  IF \E i \in 1..Len(q) : Matches(q[i], kind, g, k) THEN q ELSE Append(q, e)

\* Mutation: BankNeedDRFM's duplicate check compares the bankgroup only.
BankNeedDRFMGroupOnly(q, g, k) ==
  IF \E i \in 1..Len(q) : q[i].bg = g THEN q ELSE Append(q, Cmd("DRFMb", g, k, -1, -1))

BankNeedDRFM(q, g, k) == AddUnlessPresent(q, Cmd("DRFMb", g, k, -1, -1), "bank", g, k)
BanksetNeedDRFM(q, k) == AddUnlessPresent(q, Cmd("DRFMsb", -1, k, -1, -1), "bankset", -1, k)
RankNeedDRFM(q)       == AddUnlessPresent(q, Cmd("DRFMab", -1, -1, -1, -1), "rank", -1, -1)
BanksetNeedRFM(q, k)  == AddUnlessPresent(q, Cmd("RFMsb", -1, k, -1, -1), "bankset", -1, k)
RankNeedRFM(q)        == AddUnlessPresent(q, Cmd("RFMab", -1, -1, -1, -1), "rank", -1, -1)

\* The scope kind of the Need* function that handles c
Kind(c) ==
  IF c.type \in RankCmds THEN "rank" ELSE IF c.type \in SbCmds THEN "bankset" ELSE "bank"

\* The entry the Need*(..., false) call of UpdateState erases for c
EraseDone(q, c) == EraseFirst(q, Kind(c), c.bg, c.bank)

(***************************************************************************)
(* ChannelState::GetReadyCommand                                           *)
(***************************************************************************)
BankReady(s, b, c, in) == GetReadyType(s.bank[b], c.type, c.row, b \notin in.late)

\* Rank and bankset scope: the first bank (in loop order) that needs a
\* different command (a precharge) wins; else all banks must be ready.
ScopeReady(s, c, in) ==
  LET order == SelectSeq(BankOrder, LAMBDA b : b \in Scope(c))
      other == SelectInSeq(order, LAMBDA b :
                  BankReady(s, b, c, in) \notin {NONE, c.type})
  IN IF other # 0
     THEN LET b == order[other]
          IN Cmd(BankReady(s, b, c, in), b[1], b[2], -1, -1)
     ELSE IF \A i \in 1..Len(order) : BankReady(s, order[i], c, in) = c.type
     THEN c
     ELSE NoCmd

(***************************************************************************)
(* Hydra's RCC and its queues.  A row's counter line is addressed by the   *)
(* row's hex address with the column bits reset (ResetColBits), its set   *)
(* by the same address with them removed (RemoveColBits).  The model      *)
(* takes an address mapping with the bank bits below the row bits and one *)
(* rank, so both are RowAddr, and AddressMapping inverts it.              *)
(***************************************************************************)
NumBanks == Cardinality(Banks)
BankIndex(b) == b[1] * BanksPerGroup + b[2]
RowAddr(b, row) == row * NumBanks + BankIndex(b)
AddressMapping(a) == <<BankOrder[(a % NumBanks) + 1], a \div NumBanks>>

\* A Hydra command: hex_addr -1, column -1
HydraCmd(type, b, row) == Cmd(type, b[1], b[2], row, -1)
OnRow(e, b, row) == e.bg = b[1] /\ e.bank = b[2] /\ e.row = row

\* ChannelState::HydraRead: [s, inflight]; forwarded from the writeback queue
HydraRead(s, b, row) ==
  CASE \E i \in 1..Len(s.hydraWbQ) : OnRow(s.hydraWbQ[i], b, row) -> [s |-> s, inflight |-> TRUE]
    [] \E i \in 1..Len(s.hydraRdQ) : OnRow(s.hydraRdQ[i], b, row) -> [s |-> s, inflight |-> FALSE]
    [] OTHER -> [s |-> [s EXCEPT !.hydraRdQ = Append(@, HydraCmd("READ", b, row))],
                 inflight |-> FALSE]

\* ChannelState::HydraWB
HydraWB(s, b, row) ==
  IF \E i \in 1..Len(s.hydraWbQ) : OnRow(s.hydraWbQ[i], b, row) THEN s
  ELSE [s EXCEPT !.hydraWbQ = Append(@, HydraCmd("WRITE", b, row))]

\* BankState::hydra_check_rcc: 0 while the row's group is valid, else the
\* result of the RCC read.  Result: [s, state].
RccRead(s, r) ==
  [s |-> [s EXCEPT !.rcc = r.cache, !.rccLost = @ \/ (r.dirtyEvict /\ r.wb = Hit)],
   state |-> r.wb]

HydraCheckRcc(s, b, row) ==
  IF HydraMode = 0 \/ s.bank[b].gctValid[row % HydraGctSize]
  THEN [s |-> s, state |-> 0]
  ELSE RccRead(s, LruRead(s.rcc, RowAddr(b, row), RowAddr(b, row)))

\* The RCC consultation before PreACT: a miss queues the row's counter
\* read, a dirty eviction queues reads of both rows and the writeback of
\* the evicted one; the ACT waits unless the line is in flight.
\* Result: [s, go].
\* r1 is the current row's read, e the evicted row's <<bank, row>>
HydraEvictedWB(go1, r2, e) == [s |-> HydraWB(r2.s, e[1], e[2]), go |-> go1 /\ r2.inflight]

HydraEvictedRead(r1, e) == HydraEvictedWB(r1.inflight, HydraRead(r1.s, e[1], e[2]), e)

HydraEvicted(s, b, row, a) == HydraEvictedRead(HydraRead(s, b, row), AddressMapping(a))

HydraMissed(r) == [s |-> r.s, go |-> r.inflight]

\* k is the result of hydra_check_rcc
HydraGateOn(k, b, row) ==
  CASE k.state = 0  -> [s |-> k.s, go |-> TRUE]
    [] k.state = -1 -> HydraMissed(HydraRead(k.s, b, row))
    [] OTHER        -> HydraEvicted(k.s, b, row, k.state)

HydraGate(s, b, row) ==
  IF HydraMode = 0 THEN [s |-> s, go |-> TRUE]
  ELSE HydraGateOn(HydraCheckRcc(s, b, row), b, row)

\* hydra_preact's RCC write, done when the row's group was invalid; the
\* address the write evicts is dropped
RccWritten(s, r) == [s EXCEPT !.rcc = r.cache, !.rccLost = @ \/ r.dirtyEvict]

HydraRccWrite(s, b, row, wasValid) ==
  IF HydraMode = 0 \/ wasValid THEN s
  ELSE RccWritten(s, LruWrite(s.rcc, RowAddr(b, row), RowAddr(b, row)))

\* ChannelState::GetReadyHydraCommand: [cmd, s]
\* Mutation: wb_draining_ stays set once the writeback queue is empty.
HydraDrainingSticky(s) ==
  s.wbDraining \/ (Len(s.hydraWbQ) >= HydraWbqSize /\ s.hydraRdQ = <<>>)

HydraDraining(s) ==
  IF s.hydraWbQ = <<>> THEN FALSE
  ELSE s.wbDraining \/ (Len(s.hydraWbQ) >= HydraWbqSize /\ s.hydraRdQ = <<>>)

\* The queue served: writebacks while draining, else reads
HydraQueue(s) == IF s.wbDraining THEN s.hydraWbQ ELSE s.hydraRdQ

HydraPop(s) ==
  IF s.wbDraining THEN [s EXCEPT !.hydraWbQ = Tail(@)] ELSE [s EXCEPT !.hydraRdQ = Tail(@)]

\* The head c of the served queue, for which the bank needs t
HydraHeadReady(s, c, t, in) ==
  CASE t = NONE \/ (t = "ACTIVATE" /\ ~in.fawOk) -> [cmd |-> NoCmd, s |-> s]
    [] t \in ReadWrite -> [cmd |-> [c EXCEPT !.type = t], s |-> HydraPop(s)]
    [] OTHER -> [cmd |-> [c EXCEPT !.type = t], s |-> s]

HydraHead(s, c, in) == HydraHeadReady(s, c, BankReady(s, <<c.bg, c.bank>>, c, in), in)

\* s has wb_draining_ already updated
HydraServe(s, in) ==
  IF HydraQueue(s) = <<>> THEN [cmd |-> NoCmd, s |-> s]
  ELSE HydraHead(s, Head(HydraQueue(s)), in)

GetReadyHydraCommand(s, in) ==
  HydraServe([s EXCEPT !.wbDraining = HydraDraining(s)], in)

(***************************************************************************)
(* DREAM: one table of counters for the whole channel.  Only DREAM and     *)
(* ABACUS read tusc_, fgr_counter_ and ref_idx_ (with dream_mode = 0 the   *)
(* counters feed statistics alone), so with DREAM off they are left at 0. *)
(* The random policy (dream_policy 2, masks drawn by rand() in the         *)
(* constructor) is not modelled.                                           *)
(***************************************************************************)
\* (2^32 + v) % m: the uint32 wrap of a negative v, kept in TLC's range
U32Mod(v, m) == IF v >= 0 THEN v % m ELSE ((((2^16 % m) * (2^16 % m)) % m) + (v % m)) % m

\* ChannelState::get_tusc_idx
GetTuscIdx(b, row) ==
  IF DreamPolicy = 0 THEN row \div DreamK
  ELSE U32Mod((row % TuscSize) - BankIndex(b) + TuscSize, TuscSize)

\* Mutation: the staggered row index leaves out the bank's skew.
GetRowIdxNoSkew(b, idx, rowNum) ==
  IF DreamPolicy = 0 THEN idx * DreamK + rowNum
  ELSE (idx + rowNum * TuscSize) % NumRows

\* ChannelState::get_row_idx: the row_num-th row of bank b counted by idx
GetRowIdx(b, idx, rowNum) ==
  IF DreamPolicy = 0 THEN idx * DreamK + rowNum
  ELSE (idx + BankIndex(b) + rowNum * TuscSize) % NumRows

\* The dream_k rows of bank b that counter idx stands for, in loop order
DreamRows(b, idx) == [l \in 1..DreamK |-> GetRowIdx(b, idx, l - 1)]

DreamThreshold == IF DreamPrevEnable THEN 2 * DreamTh ELSE DreamTh

DreamCounter(s, idx) ==
  IF DreamPrevEnable THEN s.tusc[idx] + s.tuscPrev[idx] ELSE s.tusc[idx]

\* insert_drfm of every mapped row into every bank; dream_k copies of idx
\* join tusc_q_
DreamInsert(s, idx) ==
  [s EXCEPT !.bank = [b \in Banks |-> [@[b] EXCEPT !.drfmQ = FoldLeft(InsertDrfm, @, DreamRows(b, idx))]],
            !.tuscQ = @ \o [l \in 1..DreamK |-> idx]]

\* Mutation: the threshold test is dropped.
DreamCheckNoThreshold(s, idx) == DreamInsert(s, idx)

\* s has tusc_[idx] incremented
DreamCheck(s, idx) == IF DreamCounter(s, idx) >= DreamThreshold THEN DreamInsert(s, idx) ELSE s

\* ChannelState::dream_preact
DreamPreAct(s, b, row) ==
  IF DreamMode = 0 THEN s
  ELSE DreamCheck([s EXCEPT !.tusc[GetTuscIdx(b, row)] = @ + 1], GetTuscIdx(b, row))

\* ChannelState::dream_mitig: the oldest queued counter is saved and zeroed
DreamMitigChannel(s) ==
  IF DreamMode = 0 \/ s.tuscQ = <<>> THEN s
  ELSE [s EXCEPT !.tuscPrev[Head(s.tuscQ)] = s.tusc[Head(s.tuscQ)],
                 !.tusc[Head(s.tuscQ)] = 0,
                 !.tuscQ = Tail(@)]

\* ChannelState::UpdateREFCounter for REFsb and REFab
UpdateREFCounter(s, c) ==
  IF c.type = "REFsb"
  THEN [s EXCEPT !.fgr = (@ + 1) % (2 * BanksPerGroup),
                 !.refIdx = IF (s.fgr + 1) % (2 * BanksPerGroup) = 0 THEN (@ + 1) % Refchunks ELSE @]
  ELSE [s EXCEPT !.fgr = (@ + 1) % 2,
                 !.refIdx = IF ~Fgr \/ (s.fgr + 1) % 2 = 0 THEN (@ + 1) % Refchunks ELSE @]

\* The counters one dream_refresh resets: shard ref_idx_ % (refchunks / dream_reset)
TuscRowsPerRef == DreamReset * (TuscSize \div Refchunks)
RefreshShard(r) == {(r % (Refchunks \div DreamReset)) * TuscRowsPerRef + i : i \in 0..(TuscRowsPerRef - 1)}

\* ChannelState::dream_refresh (dream_mode 1): only when fgr_counter_ is 7
DreamRefresh(s) ==
  IF DreamMode = 0 \/ s.fgr # 7 THEN s
  ELSE [s EXCEPT !.tuscPrev = [i \in TuscIds |-> IF i \in RefreshShard(s.refIdx) THEN s.tusc[i] ELSE @[i]],
                 !.tusc = [i \in TuscIds |-> IF i \in RefreshShard(s.refIdx) THEN 0 ELSE @[i]]]

\* The refresh cursor and dream_refresh after a rank or bankset refresh
RefreshCursor(s, c) == IF DreamMode = 0 THEN s ELSE DreamRefresh(UpdateREFCounter(s, c))

(***************************************************************************)
(* ChannelState::GetReadyCommand, ACTIVATE branch: eager or lazy DRFM      *)
(* scheduling around the Hydra RCC check and PreACT.                       *)
(***************************************************************************)
\* The DRFM request of drfm_mode for bank b
NeedDRFM(q, b) ==
  CASE DrfmMode = 1 -> BankNeedDRFM(q, b[1], b[2])
    [] DrfmMode = 2 -> BanksetNeedDRFM(q, b[2])
    [] DrfmMode = 3 -> RankNeedDRFM(q)

\* MarkDRFMIssued and the Need*DRFM call; nothing is issued
LaunchDrfm(s, b) ==
  [cmd |-> NoCmd,
   s |-> [s EXCEPT !.bank[b].drfmIssued = TRUE, !.rfmQ = NeedDRFM(@, b)]]

\* PreACT (with hydra_preact's RCC write); the ACT is announced
AnnounceAct(s, c, b, in) ==
  [HydraRccWrite(s, b, c.row, s.bank[b].gctValid[c.row % HydraGctSize])
     EXCEPT !.bank[b] = PreAct(@, c.row, in.coin[b], in.pick[b]),
            !.announced[b] = TRUE]

\* PreACT returns IsSamplerFull (second) before dream_preact runs; the lazy
\* policy launches a DRFM on that value, after dream_preact's insertions
AfterPreAct(s, c, b) ==
  LET second == IsSamplerFull(s.bank[b])
      t == DreamPreAct(s, b, c.row)
  IN  IF DrfmPolicy = 1 /\ second THEN LaunchDrfm(t, b)
      ELSE [cmd |-> [c EXCEPT !.type = "ACTIVATE"], s |-> t]

\* g is the result of the RCC consultation
ActivateGated(g, c, b, in) ==
  IF ~g.go THEN [cmd |-> NoCmd, s |-> g.s]
  ELSE AfterPreAct(AnnounceAct(g.s, c, b, in), c, b)

ActivateReady(s, c, b, in) ==
  IF DrfmPolicy = 0 /\ IsSamplerFull(s.bank[b]) THEN LaunchDrfm(s, b)
  ELSE ActivateGated(HydraGate(s, b, c.row), c, b, in)

\* The branches after the ABO check, on the bank's answer t
BankCommandReady(s, c, b, t, in) ==
  CASE t = "RFMsb" -> [cmd |-> NoCmd, s |-> [s EXCEPT !.rfmQ = BanksetNeedRFM(@, c.bank)]]
    [] t = "RFMab" -> [cmd |-> NoCmd, s |-> [s EXCEPT !.rfmQ = RankNeedRFM(@)]]
    [] t = "ACTIVATE" -> IF in.fawOk THEN ActivateReady(s, c, b, in)
                         ELSE [cmd |-> NoCmd, s |-> s]
    [] OTHER -> [cmd |-> [c EXCEPT !.type = t], s |-> s]

\* [ABO] once tABO_act has passed since the alert: request an RFMab for
\* the rank, reset the alert, and issue nothing
\* Mutation: the back-off issues the RFMab at once instead of queueing it.
AboBackOffIssuesRfm(s) ==
  [cmd |-> Cmd("RFMab", -1, -1, -1, -1), s |-> [s EXCEPT !.alertN = FALSE]]

\* Mutation: the back-off queues the RFMab but never resets alert_n.
AboBackOffKeepsAlert(s) == [cmd |-> NoCmd, s |-> [s EXCEPT !.rfmQ = RankNeedRFM(@)]]

AboBackOff(s) == [cmd |-> NoCmd, s |-> [s EXCEPT !.rfmQ = RankNeedRFM(@), !.alertN = FALSE]]

\* Bank scope; nothing while Hydra drains writebacks or has reads queued,
\* nothing when the bank is not ready, else the ABO check comes first
BankScopeReady(s, c, in) ==
  LET b == <<c.bg, c.bank>>
      t == BankReady(s, b, c, in)
  IN IF s.wbDraining \/ s.hydraRdQ # <<>> \/ t = NONE THEN [cmd |-> NoCmd, s |-> s]
     ELSE IF s.alertN /\ in.aboDue THEN AboBackOff(s)
     ELSE BankCommandReady(s, c, b, t, in)

GetReadyCommand(s, c, in) ==
  IF c.type \in RankCmds \cup SbCmds
  THEN [cmd |-> ScopeReady(s, c, in), s |-> s]
  ELSE BankScopeReady(s, c, in)

(***************************************************************************)
(* ChannelState::UpdateState: every bank of the scope, then the queue the  *)
(* command was waiting in, then the channel-wide mitigators: a rank or    *)
(* bankset refresh advances the refresh cursor and calls dream_refresh, a  *)
(* rank DRFM calls dream_mitig (a DRFMsb or DRFMb does not).               *)
(***************************************************************************)
ChannelHooks(s, c) ==
  CASE c.type = "DRFMab" -> DreamMitigChannel(s)
    [] c.type \in {"REFab", "REFsb"} -> RefreshCursor(s, c)
    [] OTHER -> s

\* Mutation: only a bank-scope refresh leaves refresh_q_.
UpdateStateBankRefreshOnly(s, c) ==
  ChannelHooks([s EXCEPT
     !.bank = [b \in Banks |-> IF b \in Scope(c) THEN UpdateBank(@[b], c.type, c.row)
                               ELSE @[b]],
     !.rfmQ = IF c.type \in RFMs \cup DRFMs THEN EraseDone(@, c) ELSE @,
     !.refreshQ = IF c.type = "REFRESH_BANK" THEN EraseDone(@, c) ELSE @,
     !.announced = IF c.type = "ACTIVATE"
                   THEN [@ EXCEPT ![<<c.bg, c.bank>>] = FALSE] ELSE @], c)

UpdateState(s, c) ==
  ChannelHooks([s EXCEPT
     !.bank = [b \in Banks |-> IF b \in Scope(c)
                               THEN UpdateBank(@[b], c.type, c.row)
                               ELSE @[b]],
     !.rfmQ = IF c.type \in RFMs \cup DRFMs THEN EraseDone(@, c) ELSE @,
     !.refreshQ = IF c.type \in Refreshes THEN EraseDone(@, c) ELSE @,
     !.announced = IF c.type = "ACTIVATE"
                   THEN [@ EXCEPT ![<<c.bg, c.bank>>] = FALSE] ELSE @], c)

(***************************************************************************)
(* The ABO part of ChannelState::UpdateTiming, which follows UpdateState  *)
(* in UpdateTimingAndStates.  An ACT counts in num_acts_abo_ (the model   *)
(* saturates it at ABO_delay_acts, the only value it is compared with),   *)
(* an RFMab resets it.  An ACT or precharge polls the command's bank, a   *)
(* REFab, RFMab or same-bank refresh/RFM/DRFM polls every bank of the     *)
(* rank; REFRESH_BANK, DRFMb, DRFMab, reads and writes poll nothing.      *)
(***************************************************************************)
\* The early return of TriggerSameBankAlert and TriggerSameRankAlert
AlertArmed(s) == AlertMode = 1 /\ ~s.alertN /\ s.numActsAbo >= AboDelayActs

TriggerSameBankAlert(s, b) ==
  IF AlertArmed(s) /\ CheckAlert(s.bank[b]) THEN [s EXCEPT !.alertN = TRUE] ELSE s

TriggerSameRankAlert(s) ==
  IF AlertArmed(s) /\ \E b \in Banks : CheckAlert(s.bank[b])
  THEN [s EXCEPT !.alertN = TRUE] ELSE s

BankPolls == {"READ_PRECHARGE", "WRITE_PRECHARGE", "PRECHARGE", "PREab", "PREsb"}
RankPolls == {"REFab", "REFsb", "RFMsb", "DRFMsb"}

\* Mutation: an ACT polls its bank before it counts in num_acts_abo_.
UpdateTimingAboPollFirst(s, c) ==
  CASE c.type = "ACTIVATE" ->
         [TriggerSameBankAlert(s, <<c.bg, c.bank>>) EXCEPT !.numActsAbo =
            IF @ < AboDelayActs THEN @ + 1 ELSE @]
    [] c.type \in BankPolls -> TriggerSameBankAlert(s, <<c.bg, c.bank>>)
    [] c.type = "RFMab" -> TriggerSameRankAlert([s EXCEPT !.numActsAbo = 0])
    [] c.type \in RankPolls -> TriggerSameRankAlert(s)
    [] OTHER -> s

UpdateTimingAbo(s, c) ==
  CASE c.type = "ACTIVATE" ->
         TriggerSameBankAlert([s EXCEPT !.numActsAbo =
                                 IF @ < AboDelayActs THEN @ + 1 ELSE @], <<c.bg, c.bank>>)
    [] c.type \in BankPolls -> TriggerSameBankAlert(s, <<c.bg, c.bank>>)
    [] c.type = "RFMab" -> TriggerSameRankAlert([s EXCEPT !.numActsAbo = 0])
    [] c.type \in RankPolls -> TriggerSameRankAlert(s)
    [] OTHER -> s

UpdateTimingAndStates(s, c) == UpdateTimingAbo(UpdateState(s, c), c)

\* Every bank of the scope handles c (none reaches AbruptExit)
Handled(s, c) == \A b \in Scope(c) : Accepts(s.bank[b], c.type)

=============================================================================
