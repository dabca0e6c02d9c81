------------------------------ MODULE BankState ------------------------------
(***************************************************************************)
(* The per-bank state of src/DRAMsim3/src/bankstate.cc: the row-buffer     *)
(* state machine, the RAA counter that drives RFM, and the DRFM sampler    *)
(* (drfm_q_) fed by the pre-activation hooks of MINT, PARA, Graphene and   *)
(* Hydra, with the trackers of Graphene (graphene_q_) and Hydra (GCT and   *)
(* per-row counters).                                                      *)
(*                                                                         *)
(* A bank is a record; every operation of BankState is an operator from a  *)
(* bank (and its inputs) to a result, so that ChannelState can apply them  *)
(* in the order the code calls them.  Timing (cmd_timing_) is abstracted:  *)
(* the caller says whether the bank passes its timing test this cycle.    *)
(***************************************************************************)
EXTENDS Integers, Sequences, SequencesExt, FiniteSets

CONSTANTS
  Rows,             \* row ids of a bank (config rows)
  RfmMode,          \* rfm_mode: 0 off, 1 same-bank RFM, 2 all-bank RFM
  RfmTh,            \* raammt if rfm_policy = 1, else raaimt
  RfmRaaDecrement,  \* rfm_raa_decrement
  RefRaaDecrement,  \* ref_raa_decrement
  DrfmMode,         \* drfm_mode: 0 off, 1 DRFMb, 2 DRFMsb, 3 DRFMab
  DrfmQSize,        \* drfm_qsize
  DrfmQTh,          \* drfm_qth
  DreamMode,        \* dream_mode
  MintMode,         \* mint_mode
  MintWindow,       \* mint_window
  ParaMode,         \* para_mode
  GrapheneMode,     \* graphene_mode
  GrapheneTh,       \* graphene_th
  GrapheneEntries,  \* graphene_entries_ (refchunks * tREFI / (tRAS + tRP) / graphene_th)
  HydraMode,        \* hydra_mode
  HydraTh,          \* hydra_th
  HydraGctSize,     \* hydra_gct_size
  HydraGctTh,       \* hydra_gct_th
  MoatMode,         \* moat_mode
  MoatTh,           \* moatth
  RowsRefreshed     \* rows_refreshed: rows one REF refreshes

ASSUME RfmMode \in 0..2 /\ DrfmMode \in 0..3
ASSUME DreamMode \in 0..1
ASSUME MintMode \in 0..1 /\ ParaMode \in 0..1 /\ MintWindow \in Nat \ {0}
ASSUME GrapheneMode \in 0..1 /\ HydraMode \in 0..1 /\ MoatMode \in 0..1 /\ MoatTh \in Nat
ASSUME {RfmTh, RfmRaaDecrement, RefRaaDecrement, DrfmQSize, DrfmQTh,
        GrapheneTh, GrapheneEntries, HydraTh, HydraGctTh} \subseteq Nat
ASSUME HydraGctSize \in Nat \ {0} /\ RowsRefreshed \in Nat \ {0}

\* Row ids are 0..rows-1: the refresh cursor and Hydra's groups index them
NumRows == Cardinality(Rows)
ASSUME Rows = 0..(NumRows - 1)

NoRow == -1          \* open_row_ of a bank that is not OPEN
NONE  == "SIZE"      \* CommandType::SIZE, the invalid command

ReadWrite  == {"READ", "WRITE", "READ_PRECHARGE", "WRITE_PRECHARGE"}
Refreshes  == {"REFRESH_BANK", "REFsb", "REFab"}
RFMs       == {"RFMsb", "RFMab"}
DRFMs      == {"DRFMb", "DRFMsb", "DRFMab"}
Precharges == {"PRECHARGE", "PREab", "PREsb"}
CmdTypes   == ReadWrite \cup Refreshes \cup RFMs \cup DRFMs \cup Precharges
                \cup {"ACTIVATE", "SREF_ENTER", "SREF_EXIT"}

DrfmEntry == [row : Rows, ctr : Nat]

\* row_hit_count_ is only compared with 0 and with the arbitration limit 4
\* (command_queue.cc), so the model saturates it there
RowHitSat == 4

GctIds == 0..(HydraGctSize - 1)

\* num_rows_per_gct_: rows / hydra_gct_size, an integer division
RowsPerGct == NumRows \div HydraGctSize

(***************************************************************************)
(* BankState::BankState.  Two fields are auxiliary, read by properties    *)
(* only:                                                                   *)
(*   acts     per row, the activations announced to PreACT since the row  *)
(*            was last chosen by drfm_mitig or the trackers were last      *)
(*            reset (a refresh with ref_idx_ at 0);                        *)
(*   mitigOk  FALSE once the assert of graphene_mitig has failed.          *)
(* prac_ is counted only when moat_mode is on: otherwise only statistics  *)
(* read it.  moat_max_prac_idx_ is set by the constructor only when       *)
(* moat_mode is the first mitigator on (else uninitialised), so the model  *)
(* is run with MOAT alone.                                                 *)
(***************************************************************************)
InitBank == [state |-> "CLOSED", openRow |-> NoRow, rowHits |-> 0, raa |-> 0,
             drfmQ |-> <<>>, drfmIssued |-> FALSE, mintRows |-> <<>>,
             graphQ |-> <<>>, spill |-> 0, refIdx |-> 0,
             gct |-> [g \in GctIds |-> 0], gctValid |-> [g \in GctIds |-> TRUE],
             counts |-> [r \in Rows |-> 0],
             acts |-> [r \in Rows |-> 0], mitigOk |-> TRUE,
             prac |-> [r \in Rows |-> 0], moatMax |-> NoRow]

(***************************************************************************)
(* BankState::GetReadyCommand: the command that makes progress on cmd, or  *)
(* NONE; "ABORT" stands for the AbruptExit of an unknown combination.      *)
(***************************************************************************)
\* Mutation: refresh, RFM and DRFM requests reach an open bank without the
\* precharge that closes it first.
RequiredTypeKeepsRowOpen(bk, type, row) ==
  CASE bk.state = "CLOSED" /\ type \in ReadWrite ->
         IF RfmMode = 1 /\ bk.raa >= RfmTh THEN "RFMsb"
         ELSE IF RfmMode = 2 /\ bk.raa >= RfmTh THEN "RFMab"
         ELSE IF bk.drfmIssued THEN NONE ELSE "ACTIVATE"
    [] bk.state = "OPEN" /\ type \in ReadWrite ->
         IF row = bk.openRow THEN type ELSE "PRECHARGE"
    [] bk.state \in {"CLOSED", "OPEN"} -> type
    [] bk.state = "SREF" /\ type \in ReadWrite -> "SREF_EXIT"
    [] OTHER -> "ABORT"

RequiredType(bk, type, row) ==
  CASE bk.state = "CLOSED" /\ type \in ReadWrite ->
         IF RfmMode = 1 /\ bk.raa >= RfmTh THEN "RFMsb"
         ELSE IF RfmMode = 2 /\ bk.raa >= RfmTh THEN "RFMab"
         ELSE IF bk.drfmIssued THEN NONE
         ELSE "ACTIVATE"
    [] bk.state = "CLOSED" /\ type \in Refreshes \cup RFMs \cup DRFMs \cup {"SREF_ENTER"} -> type
    [] bk.state = "OPEN" /\ type \in ReadWrite ->
         IF row = bk.openRow THEN type ELSE "PRECHARGE"
    [] bk.state = "OPEN" /\ type \in {"REFRESH_BANK", "DRFMb"} -> "PRECHARGE"
    [] bk.state = "OPEN" /\ type \in {"REFab", "RFMab", "DRFMab", "SREF_ENTER"} -> "PREab"
    [] bk.state = "OPEN" /\ type \in {"REFsb", "RFMsb", "DRFMsb"} -> "PREsb"
    [] bk.state = "SREF" /\ type \in ReadWrite -> "SREF_EXIT"
    [] OTHER -> "ABORT"

\* The trailing timing test: clk >= cmd_timing_[required_type]
GetReadyType(bk, type, row, timingOk) ==
  LET t == RequiredType(bk, type, row)
  IN IF t \notin {NONE, "ABORT"} /\ ~timingOk THEN NONE ELSE t

(***************************************************************************)
(* The DRFM sampler.                                                       *)
(***************************************************************************)
MaxCtr(q) == IF q = <<>> THEN -1
             ELSE CHOOSE c \in {q[i].ctr : i \in 1..Len(q)} :
                    \A i \in 1..Len(q) : q[i].ctr <= c

\* Mutation: the size test of IsSamplerFull is off by one.
IsSamplerFullOffByOne(bk) ==
  /\ DrfmMode # 0
  /\ \/ Len(bk.drfmQ) > DrfmQSize
     \/ bk.drfmQ # <<>> /\ MaxCtr(bk.drfmQ) >= DrfmQTh

\* BankState::IsSamplerFull
IsSamplerFull(bk) ==
  /\ DrfmMode # 0
  /\ \/ Len(bk.drfmQ) >= DrfmQSize
     \/ bk.drfmQ # <<>> /\ MaxCtr(bk.drfmQ) >= DrfmQTh

\* BankState::drfm_post_act: the first entry of the row counts the ACT
DrfmPostAct(q, row) ==
  LET i == SelectInSeq(q, LAMBDA e : e.row = row)
  IN IF i = 0 THEN q ELSE [q EXCEPT ![i].ctr = @ + 1]

\* BankState::insert_drfm
InsertDrfm(q, row) == IF DrfmMode = 0 THEN q ELSE Append(q, [row |-> row, ctr |-> 0])

(***************************************************************************)
(* BankState::drfm_mitig.  The victim is the first entry of maximum ctr    *)
(* (std::max_element; the head tie-break never changes it).  The code      *)
(* erases it and then reads max_entry->rowid through the erased iterator:  *)
(* that slot now holds the next entry, or, when the victim was the last    *)
(* entry, the stale copy of the victim itself.  Result: <<queue, rowid>>.  *)
(***************************************************************************)
MitigIndex(q) ==
  CHOOSE i \in 1..Len(q) : /\ q[i].ctr = MaxCtr(q)
                           /\ \A j \in 1..(i - 1) : q[j].ctr < q[i].ctr

DrfmMitig(q) ==
  IF q = <<>> THEN <<q, -1>>
  ELSE LET i == MitigIndex(q)
       IN <<RemoveAt(q, i), IF i < Len(q) THEN q[i + 1].row ELSE q[i].row>>

\* drfm_mitig on a bank; the victim's row counts as refreshed (acts)
MitigBank(bk) ==
  IF bk.drfmQ = <<>> THEN bk
  ELSE [bk EXCEPT !.drfmQ = DrfmMitig(@)[1],
                  !.acts[bk.drfmQ[MitigIndex(bk.drfmQ)].row] = 0]

(***************************************************************************)
(* The mitigation hooks a DRFM runs: dream_mitig, mint_mitig, para_mitig,  *)
(* graphene_mitig, hydra_mitig, each calling drfm_mitig when its mode is   *)
(* on.  graphene_mitig then erases the maximum graphene_q_ entry and       *)
(* asserts that drfm_mitig returned that entry's row; hydra_mitig clears   *)
(* the counter of the row drfm_mitig returned.                             *)
(***************************************************************************)
DreamMitig(bk) == IF DreamMode = 1 THEN MitigBank(bk) ELSE bk
MintMitig(bk) == IF MintMode = 1 THEN MitigBank(bk) ELSE bk
ParaMitig(bk) == IF ParaMode = 1 THEN MitigBank(bk) ELSE bk

\* graphene_mitig once drfm_mitig has returned rowid; k is the maximum
\* graphene_q_ entry
GrapheneErase(bk, rowid, k) ==
  [MitigBank(bk) EXCEPT !.graphQ = RemoveAt(@, k),
                        !.mitigOk = @ /\ rowid # -1 /\ rowid = bk.graphQ[k].row]

\* Mutation: graphene_mitig checks and erases the first entry, not the maximum.
GrapheneMitigFirst(bk) ==
  CASE GrapheneMode = 0 -> bk
    [] bk.graphQ = <<>> -> MitigBank(bk)
    [] OTHER -> GrapheneErase(bk, DrfmMitig(bk.drfmQ)[2], 1)

\* Mutation: graphene_mitig erases its entry without calling drfm_mitig.
GrapheneMitigNoDrfm(bk) ==
  IF GrapheneMode = 0 \/ bk.graphQ = <<>> THEN bk
  ELSE [bk EXCEPT !.graphQ = RemoveAt(@, MitigIndex(@))]

GrapheneMitig(bk) ==
  CASE GrapheneMode = 0 -> bk
    [] bk.graphQ = <<>> -> MitigBank(bk)
    [] OTHER -> GrapheneErase(bk, DrfmMitig(bk.drfmQ)[2], MitigIndex(bk.graphQ))

\* hydra_mitig once drfm_mitig has returned rowid
HydraClear(bk, rowid) ==
  IF rowid = -1 THEN MitigBank(bk)
  ELSE [MitigBank(bk) EXCEPT !.counts[rowid] = 0]

HydraMitig(bk) ==
  IF HydraMode = 0 THEN bk ELSE HydraClear(bk, DrfmMitig(bk.drfmQ)[2])

\* Mutation: para_mitig does not mitigate.
MitigHooksWithoutPara(bk) == HydraMitig(GrapheneMitig(MintMitig(DreamMitig(bk))))

MitigHooks(bk) == HydraMitig(GrapheneMitig(ParaMitig(MintMitig(DreamMitig(bk)))))

(***************************************************************************)
(* BankState::PreACT: mint_preact, para_preact, graphene_preact and        *)
(* hydra_preact in this order.  pick is the index rand() %                 *)
(* mint_rows_.size() chooses, coin whether para's random draw is below     *)
(* para_prob.  hydra_preact's write of the RCC is done by the channel,     *)
(* which holds the RCC (HydraRccWrite in ChannelState).                    *)
(***************************************************************************)
\* mint_preact once the row is appended to mint_rows_ (rows)
MintWindowStep(bk, rows, pick) ==
  IF Len(rows) >= MintWindow
  THEN [bk EXCEPT !.mintRows = <<>>, !.drfmQ = Append(@, [row |-> rows[pick], ctr |-> 0])]
  ELSE [bk EXCEPT !.mintRows = rows]

MintPreAct(bk, row, pick) ==
  IF MintMode = 0 THEN bk ELSE MintWindowStep(bk, Append(bk.mintRows, row), pick)

ParaPreAct(bk, row, coin) ==
  IF ParaMode = 1 /\ coin
  THEN [bk EXCEPT !.drfmQ = Append(@, [row |-> row, ctr |-> 0])]
  ELSE bk

\* graphene_preact, first half: count the ACT in the Misra-Gries table;
\* found is the row's entry, low the first entry at the spillover count
GrapheneCountAt(bk, row, found, low) ==
  CASE found # 0 -> [bk EXCEPT !.graphQ[found].ctr = @ + 1]
    [] Len(bk.graphQ) < GrapheneEntries ->
         [bk EXCEPT !.graphQ = Append(@, [row |-> row, ctr |-> 1])]
    [] low # 0 -> [bk EXCEPT !.graphQ[low] = [row |-> row, ctr |-> bk.spill + 1]]
    [] OTHER -> [bk EXCEPT !.spill = @ + 1]

GrapheneCount(bk, row) ==
  GrapheneCountAt(bk, row, SelectInSeq(bk.graphQ, LAMBDA e : e.row = row),
                  SelectInSeq(bk.graphQ, LAMBDA e : e.ctr = bk.spill))

\* graphene_preact, second half: the first entry at graphene_th is sampled
GrapheneSampleAt(bk, tg) ==
  IF tg = 0 THEN bk
  ELSE [bk EXCEPT !.drfmQ = Append(@, [row |-> bk.graphQ[tg].row, ctr |-> 0])]

GrapheneSample(bk) ==
  GrapheneSampleAt(bk, SelectInSeq(bk.graphQ, LAMBDA e : e.ctr >= GrapheneTh))

GraphenePreAct(bk, row) ==
  IF GrapheneMode = 0 THEN bk ELSE GrapheneSample(GrapheneCount(bk, row))

\* hydra_preact: count in the GCT while the group is valid, else per row
HydraCount(bk, row) ==
  IF bk.gctValid[row % HydraGctSize]
  THEN [bk EXCEPT !.gct[row % HydraGctSize] = @ + 1]
  ELSE [bk EXCEPT !.counts[row] = @ + 1]

\* the group reaching hydra_gct_th is invalidated and its rows' counters
\* seeded: rows i * hydra_gct_size + g for i < num_rows_per_gct_
\* Mutation: the overflowing group's rows are not seeded.
HydraOverflowNoSeed(bk, g) ==
  IF bk.gct[g] >= HydraGctTh /\ bk.gctValid[g] THEN [bk EXCEPT !.gctValid[g] = FALSE]
  ELSE bk

HydraOverflow(bk, g) ==
  IF bk.gct[g] >= HydraGctTh /\ bk.gctValid[g]
  THEN [bk EXCEPT !.gctValid[g] = FALSE,
                  !.counts = [r \in Rows |->
                     IF r % HydraGctSize = g /\ r \div HydraGctSize < RowsPerGct
                     THEN HydraGctTh ELSE @[r]]]
  ELSE bk

HydraSample(bk, row) ==
  IF ~bk.gctValid[row % HydraGctSize] /\ bk.counts[row] >= HydraTh
  THEN [bk EXCEPT !.drfmQ = Append(@, [row |-> row, ctr |-> 0])]
  ELSE bk

HydraPreAct(bk, row) ==
  IF HydraMode = 0 THEN bk
  ELSE HydraSample(HydraOverflow(HydraCount(bk, row), row % HydraGctSize), row)

\* The hooks in order; the announced activation counts in acts
PreAct(bk, row, coin, pick) ==
  [HydraPreAct(GraphenePreAct(ParaPreAct(MintPreAct(bk, row, pick), row, coin), row), row)
     EXCEPT !.acts[row] = @ + 1]

(***************************************************************************)
(* PRAC and MOAT.  An ACT counts in prac_ and moat_act keeps the row of   *)
(* highest count among the rows activated since the tracker was last      *)
(* cleared; moat_mitig (an RFMab, or a DRFM falling through into it)      *)
(* zeroes the tracked row's count and bumps its neighbours at distance 1  *)
(* and 2 that exist, and clears the tracker; a refresh clears the tracker *)
(* when the tracked row is in the window [ref_idx_, ref_idx_ +            *)
(* rows_refreshed) and zeroes the counts of the rows it refreshes.        *)
(***************************************************************************)
PracAct(bk, row) == IF MoatMode = 1 THEN [bk EXCEPT !.prac[row] = @ + 1] ELSE bk

MoatAct(bk, row) ==
  IF MoatMode = 1 /\ (bk.moatMax = NoRow \/ bk.prac[row] > bk.prac[bk.moatMax])
  THEN [bk EXCEPT !.moatMax = row] ELSE bk

MoatRefresh(bk) ==
  IF MoatMode = 1 /\ bk.moatMax >= bk.refIdx /\ bk.moatMax < bk.refIdx + RowsRefreshed
  THEN [bk EXCEPT !.moatMax = NoRow] ELSE bk

\* The rows one refresh covers, from ref_idx_ on, modulo rows
Refreshed(bk) == {(bk.refIdx + i) % NumRows : i \in 0..(RowsRefreshed - 1)}

PracRefresh(bk) ==
  IF MoatMode = 1
  THEN [bk EXCEPT !.prac = [r \in Rows |-> IF r \in Refreshed(bk) THEN 0 ELSE @[r]]]
  ELSE bk

\* The neighbours of row m that moat_mitig bumps
MoatNeighbours(m) == {r \in Rows : r # m /\ m - 2 <= r /\ r <= m + 2}

MoatMitig(bk) ==
  IF MoatMode = 0 \/ bk.moatMax = NoRow THEN bk
  ELSE [bk EXCEPT !.prac = [r \in Rows |-> CASE r = bk.moatMax -> 0
                                             [] r \in MoatNeighbours(bk.moatMax) -> @[r] + 1
                                             [] OTHER -> @[r]],
                  !.moatMax = NoRow]

\* BankState::CheckAlert
CheckAlert(bk) == MoatMode = 1 /\ bk.moatMax # NoRow /\ bk.prac[bk.moatMax] > MoatTh

(***************************************************************************)
(* BankState::UpdateState.  Accepts(bk, type) holds for the combinations   *)
(* the code handles; every other one ends in AbruptExit.                   *)
(***************************************************************************)
Accepts(bk, type) ==
  \/ bk.state = "OPEN" /\ type \in ReadWrite \cup Precharges
  \/ bk.state = "CLOSED" /\ type \in Refreshes \cup RFMs \cup DRFMs
                                   \cup {"ACTIVATE", "SREF_ENTER", "PREab", "PREsb"}
  \/ bk.state = "SREF" /\ type = "SREF_EXIT"

\* Mutation: the RAA decrement does not saturate at zero.
SatSubUnclamped(x, d) == x - d

SatSub(x, d) == x - (IF x < d THEN x ELSE d)

(***************************************************************************)
(* The refresh case (FGR off): the RAA decrement, graphene_refresh and     *)
(* hydra_refresh, which reset their trackers when ref_idx_ is at row 0,    *)
(* and the advance of ref_idx_ by rows_refreshed.                          *)
(***************************************************************************)
GrapheneReset(bk) ==
  IF GrapheneMode = 1 THEN [bk EXCEPT !.graphQ = <<>>, !.spill = 0] ELSE bk

HydraReset(bk) ==
  IF HydraMode = 1
  THEN [bk EXCEPT !.gct = [g \in GctIds |-> 0], !.gctValid = [g \in GctIds |-> TRUE],
                  !.counts = [r \in Rows |-> 0]]
  ELSE bk

TrackersReset(bk) ==
  IF bk.refIdx % NumRows = 0
  THEN [HydraReset(GrapheneReset(bk)) EXCEPT !.acts = [r \in Rows |-> 0]]
  ELSE bk

RefreshBank(bk) ==
  [PracRefresh(MoatRefresh(TrackersReset(bk))) EXCEPT !.raa = SatSub(@, RefRaaDecrement),
                            !.refIdx = (@ + RowsRefreshed) % NumRows]

\* The DRFM case falls through into the RFMab and RFMsb cases
DrfmBank(bk) ==
  [MoatMitig(MitigHooks(bk)) EXCEPT !.drfmIssued = FALSE, !.raa = SatSub(@, RfmRaaDecrement)]

ActivateBank(bk, row) ==
  [MoatAct(PracAct(bk, row), row) EXCEPT !.state = "OPEN", !.openRow = row, !.raa = @ + 1,
             !.drfmQ = DrfmPostAct(@, row)]

\* Mutation: a DRFM leaves drfm_issued_ set.
UpdateBankKeepsDrfmIssued(bk, type, row) ==
  CASE bk.state = "OPEN" /\ type \in {"READ", "WRITE"} ->
         [bk EXCEPT !.rowHits = IF @ < RowHitSat THEN @ + 1 ELSE @]
    [] bk.state = "OPEN" ->
         [bk EXCEPT !.state = "CLOSED", !.openRow = NoRow, !.rowHits = 0]
    [] type \in Refreshes -> RefreshBank(bk)
    [] type \in DRFMs ->
         [MoatMitig(MitigHooks(bk)) EXCEPT !.raa = SatSub(@, RfmRaaDecrement)]
    [] type = "RFMab" -> [MoatMitig(bk) EXCEPT !.raa = SatSub(@, RfmRaaDecrement)]
    [] type = "RFMsb" -> [bk EXCEPT !.raa = SatSub(@, RfmRaaDecrement)]
    [] type = "ACTIVATE" -> ActivateBank(bk, row)
    [] type = "SREF_ENTER" -> [bk EXCEPT !.state = "SREF"]
    [] type = "SREF_EXIT" -> [bk EXCEPT !.state = "CLOSED"]
    [] OTHER -> bk

UpdateBank(bk, type, row) ==
  CASE bk.state = "OPEN" /\ type \in {"READ", "WRITE"} ->
         [bk EXCEPT !.rowHits = IF @ < RowHitSat THEN @ + 1 ELSE @]
    [] bk.state = "OPEN" ->
         [bk EXCEPT !.state = "CLOSED", !.openRow = NoRow, !.rowHits = 0]
    [] type \in Refreshes -> RefreshBank(bk)
    [] type \in DRFMs -> DrfmBank(bk)
    [] type = "RFMab" -> [MoatMitig(bk) EXCEPT !.raa = SatSub(@, RfmRaaDecrement)]
    [] type = "RFMsb" -> [bk EXCEPT !.raa = SatSub(@, RfmRaaDecrement)]
    [] type = "ACTIVATE" -> ActivateBank(bk, row)
    [] type = "SREF_ENTER" -> [bk EXCEPT !.state = "SREF"]
    [] type = "SREF_EXIT" -> [bk EXCEPT !.state = "CLOSED"]
    [] OTHER -> bk

=============================================================================
