# TLA+ models of the DRAMsim3 RowHammer-mitigation controller

This directory holds TLA+ models of the per-channel DRAM controller in
`src/DRAMsim3/src`. It covers the bank state machines, the channel's
refresh/RFM/DRFM arbitration, the DRFM sampler fed by the MINT and PARA
mitigators, and the per-bank command queues. It also holds the TLC
configurations that check them.

## The system

| part | source | role |
|---|---|---|
| BankState | `bankstate.cc/.h` | one bank: CLOSED/OPEN/SREF row buffer, `raa_ctr_` (RFM), DRFM sampler `drfm_q_`, `drfm_issued_`, mitigator state (MINT, PARA, Graphene, Hydra, MOAT, PRAC) |
| ChannelState | `channel_state.cc/.h` | all banks of a channel; `refresh_q_`, `rfm_q_`; scope dispatch of `GetReadyCommand`/`UpdateState`; eager/lazy DRFM launch; DREAM, ABACUS, Hydra queues, ABO alerts; timing propagation and tFAW |
| CommandQueue | `command_queue.cc` | per-bank request queues, round robin, first-ready scan, precharge arbitration, write-after-read check, `FinishRefresh`/`FinishRFM` |
| Timing | `timing.cc` | per-command, per-scope minimum distances |
| LRU | `lru.hpp` | Hydra's row-counter cache |
| controller, refresh generator | not in the repository | calls the queue once per cycle; requests refreshes |

How the parts interact. Each cycle the controller does three things in order:
1. If a refresh is waiting, it calls `FinishRefresh`.
2. If that issued nothing and an RFM/DRFM is waiting, it calls `FinishRFM`.
3. If that also issued nothing, it calls `GetCommandToIssue`.

All three ask `ChannelState::GetReadyCommand` for the next command. The channel asks
the bank(s) of the command's scope. The asking is not free of side effects:
- a bank over its RAA threshold makes the channel queue an RFM;
- an ACTIVATE runs `PreACT`, which feeds the sampler;
- a full sampler makes the channel mark the bank `drfm_issued_` and queue a
  DRFM of the configured scope.

The command found is applied by `UpdateTimingAndStates`. A DRFM runs the
mitigation hooks, which remove a victim from the sampler, and it clears
`drfm_issued_`.

## Modules

- `BankState.tla` holds one bank as a record, plus operators for
  `GetReadyCommand` (`RequiredType`, `GetReadyType`), `UpdateState`
  (`UpdateBank`, `Accepts` for the combinations that do not abort),
  `IsSamplerFull`, `PreACT` (`MintPreAct`, `ParaPreAct`), `drfm_post_act`
  and `drfm_mitig`. `DrfmMitig` returns the row id the code really returns,
  read through the erased iterator.
- `ChannelState.tla` holds one rank as a record `[bank, rfmQ, refreshQ,
  announced]`. It has the `Need*` queue functions with their duplicate checks,
  the scope dispatch of `GetReadyCommand` (`ScopeReady`, `BankScopeReady`,
  `ActivateReady` with the eager/lazy launch) and `UpdateState`. Because
  `GetReadyCommand` changes the channel, it returns `[cmd, s]`.
  `announced` is an auxiliary field. `ActivateReady` sets it when PreACT runs
  for a bank, and issuing that bank's ACTIVATE clears it.
- Graphene and Hydra live in `BankState.tla` next to MINT and PARA:
  `GraphenePreAct` (table update with spillover, then the `found_tg`
  insertion), `HydraPreAct` (GCT count, overflow seeding, aggressor
  insertion), `TrackersReset` (`graphene_refresh`, `hydra_refresh`) and the
  hooks `GrapheneMitig` (with its assert, recorded in `mitigOk`) and
  `HydraMitig`. The auxiliary field `acts` counts, per row, the ACTs PreACT
  announced since the row was last mitigated or the trackers were reset;
  the tracker properties compare it with what the tables hold.
- DREAM is channel-wide and lives in `ChannelState.tla`. The channel
  record holds the counter table `tusc` and `tuscPrev`, the mitigation
  queue `tuscQ` and the refresh cursor `fgr`/`refIdx`.
  - `GetTuscIdx` and `GetRowIdx` cover the set-associative and staggered
    policies. The uint32 wrap of the staggered index is kept (`U32Mod`).
  - `DreamPreAct` runs in `AfterPreAct`, after PreACT (`AnnounceAct`).
    At the threshold it inserts the counter's rows into every bank
    (`DreamInsert`, through `insert_drfm`). PreACT's result `second` is
    `IsSamplerFull` read before `dream_preact`. The lazy policy launches
    on that value, so an ACT whose DREAM insertion fills the sampler is
    still issued, and the DRFM is launched on the bank's next announce.
  - `ChannelHooks` runs after the banks in `UpdateState`. It calls
    `DreamMitigChannel` on DRFMab only. It calls `UpdateREFCounter` and
    `DreamRefresh` on REFab/REFsb; `DreamRefresh` resets only when
    `fgr_counter_` is 7.
  - The bank's `dream_mitig` is the `DreamMitig` hook.

  With DREAM off, the counters and the cursor stay at 0, because nothing
  else reads them.
- Hydra's channel side is in `ChannelState.tla`: the RCC (`rcc`), the
  counter read and writeback queues, `HydraCheckRcc`/`HydraGate` (an ACT
  stalls until its counter line is in flight), `HydraRccWrite` and
  `GetReadyHydraCommand`, which `FirstReady` calls before every queue
  entry. `configuration.cc` is not in the repository, so the address of a
  row's counter line is assumed to be `row * banks + bank index` and
  `AddressMapping` inverts it. The auxiliary `rccLost` is set when a dirty
  line is evicted without a writeback.
- MOAT and PRAC live in `BankState.tla`. `prac` holds `prac_` and
  `moatMax` holds `moat_max_prac_idx_`. The modelled steps are:
  - ACTIVATE: `PracAct`, then `MoatAct`;
  - REF: `MoatRefresh`, then `PracRefresh` over the `Refreshed` window;
  - RFMab and DRFM: `MoatMitig`, which zeroes the tracked row, bumps the
    rows within two of it (`MoatNeighbours`) and forgets the tracker;
  - `CheckAlert`.

  The ABO alert lives in `ChannelState.tla`, as `alertN` and `numActsAbo`.
  `UpdateTimingAndStates` is `UpdateState` followed by `UpdateTimingAbo`,
  which models the ABO cases of `UpdateTiming`:
  - an ACT counts itself, then polls its bank with `TriggerSameBankAlert`;
  - the precharges (`BankPolls`) poll their bank;
  - RFMab resets the count, then polls the rank;
  - the other refresh/RFM/DRFM commands (`RankPolls`) poll the rank with
    `TriggerSameRankAlert`.

  `BankScopeReady` runs the back-off (`AboBackOff`) after the drain check
  and before `BankCommandReady` (the RFM requests and the ACT window). The
  back-off calls `RankNeedRFM`, resets the alert and returns no command.
- `LruCache.tla` holds `lru.hpp` as pure operators. The recency order of a
  set replaces `access_count`/`last_access`, because only their order is
  compared. `LruCacheSpec.tla` drives it with arbitrary reads and writes.
  `LruStack.tla` is the abstract specification of what the RCC promises
  (spec §9): each set is a stack of at most `Ways` lines in recency order,
  and each access returns hit, no writeback, or the evicted dirty address.
  `LruCacheSpec` maps its ways to that stack by `last_access` order
  (`Abstract == INSTANCE LruStack WITH ...`) and checks `Abstract!Spec`
  as a property.
- `Timing.tla` holds one rank's command timing on its own. It covers:
  - the rows of `timing.cc` for ACTIVATE, READ, WRITE, PRECHARGE, PREab
    and REFab in four scopes (`SameBank`, `OtherBanksSameBankgroup`,
    `OtherBankgroupsSameRank`, `SameRankRefab`), over the distances the
    constructor derives (`ReadToPre`, `WriteToPre` and so on);
  - `ChannelState::UpdateTiming` (`ScopeRow`, `UpdateTiming`) and
    `BankState::UpdateTiming` (`Raise`);
  - the window `four_aw_` (`UpdateActivationTimes`, `IsFAWReady`).

  There is no clock. `wait[b][c]` holds `cmd_timing_[c] - clk`, floored at
  0, and each cycle decrements it. The code compares `cmd_timing_` only
  with `clk`, so nothing is lost. `four_aw_` is kept the same way.
  Requests are abstract: a closed bank may take an ACTIVATE, an open one a
  READ, a WRITE or a PRECHARGE. A pending REFab blocks the rank's queues.
  FinishRefresh then runs the rank scan (`PreReady`, `RefabReady`), which
  answers PREab for the first open bank whose own PREab timing is met.
  The auxiliary variables `actAge`, `sincePre` and `late` are the
  reference quantities the properties read.
- `CommandQueue.tla` holds the variables and the specification. `Tick(in)` is
  one controller cycle. The recursive operators `FirstReady` and `IssueLoop`
  reproduce the order in which the code scans queues and entries, so that
  side effects of an earlier `GetReadyCommand` call are seen by later ones in
  the same cycle. `AddCommand` and `NeedRefresh` are the environment.

The inputs of a cycle, `in`, stand for what the model does not compute:
- `in.late`: the banks that fail `clk >= cmd_timing_[type]`;
- `in.fawOk`: the result of `ActivationWindowOk`;
- `in.coin`: per bank, whether PARA's draw is below `para_prob`;
- `in.pick`: per bank, the index MINT's `rand()` chooses;
- `in.aboDue`: whether `clk > tABO_act + last_alert_clk_` (`AboDue`).

Every combination is allowed. `ParaAlways` models `para_prob = 1.0`.
`row_hit_count_` is only compared with 0 and 4, so it saturates at 4.

## Runs

| run | expect | what it shows |
|---|---|---|
| `core_eager` | pass | eager policy, DRFMb, RFMsb, REFab, PARA, 1×2 banks, 4 requests, 1 refresh (55k states, ~45 s): `TypeOK`, `NoAbruptExit`, `DrfmIssuedCovered`, `SamplerBounded`, `RequestsServed`, `DrfmCompletes`, `RefreshServed` |
| `dream_bankset` | pass | DREAM, staggered, `dream_th = 3`, lazy policy, DRFMab, 2×1 banks, REFsb/PREsb, reads and writes to one address (23k states, ~20 s): `NoAbruptExit`, `DreamNoEscape` (a row with `dream_th` announced ACTs in a bank is in that bank's sampler, also across the ACTs issued between a DREAM insertion that fills a sampler and the lazy launch), `RequestsServed`, `RefreshServed` |
| `dream_overflow` | violation | DREAM with DRFMb on 1×2 banks: a threshold ACT in one bank inserts into the other bank's full sampler (`SamplerBounded`, spec §3 `drfm_q.len ≤ drfm_qsize`) |
| `drfm_lost_rank` | violation | DRFMab request dropped because an RFMab is queued; the bank stays `drfm_issued_` (`DrfmIssuedCovered`) |
| `hydra_eager` | pass | Hydra, one GCT group, one-way RCC, 2 banks, 5 requests (68k states, ~75 s): `NoAbruptExit`, `HydraCountsSound` (no row under-counted), liveness. RCC misses, dirty evictions, writeback draining all occur |
| `graphene_eager` | pass | Graphene, 2-entry table over 3 rows, 1-entry sampler (9k states): `GrapheneMitigAssert`, `SamplerBounded` (the `found_tg` re-insertions never overflow `drfm_q_`), and liveness |
| `moat_abo` | pass | MOAT with PRAC, `moatth = 2`, ABO with `ABO_delay_acts = 1`, RFMab from RAA (`rfm_th = 2`) and from the back-off, REFab, 1×2 banks of 3 rows, 3 requests (16k states, ~20 s): `NoAbruptExit`, `AlertNotLost` (once `ABO_delay_acts` ACTs have passed, a bank over `moatth` has `alert_n` raised or an RFMab queued), `RequestsServed`, `RefreshServed` |
| `timing_faw` | pass | `Timing`, 2×2 banks, refreshes at any time (354k states, ~20 s). `FawWindow`: at most four ACTs in any tFAW window, checked against the ages of the last four ACTs. `PrechargeToActivate`: every ACT is at least tRP after its bank was closed, also when a PREab addressed to another bank closed it. `RefreshIssued` (under `FairSpec`): a pending REFab is always issued eventually (~95 s) |
| `timing_preab_early` | violation | a PREab is issued for a REFab to a bank whose tRAS has passed, and it closes a bank activated one cycle earlier (`IssuedOnTime`, spec §8) |
| `lru_reference` | pass | `LruCacheSpec` refines `LruStack`, 2 sets × 2 ways, 6 addresses: `LruRefines` (every read/write is an abstract LRU access with the same result) |
| `rcc_lost_writeback` | violation | the dirty counter line with address 0 is evicted; `read()` returns 0, taken as a hit, and no writeback is queued (`RccNoLostWriteback`) |
| `graphene_escape` | violation | after `graphene_mitig` erases an entry, a spilled row re-enters at count 1 and reaches `graphene_th` ACTs unqueued (`GrapheneNoEscape`, spec §8 round-trip) |

Each property of a passing run has a mutant in `PROJECT.json`: a plausible
bug in a mapped definition that TLC catches with that property. Examples:
- a non-saturating RAA decrement;
- a refresh issued to an open bank;
- a duplicate check that compares the wrong field;
- an off-by-one in `IsSamplerFull`;
- `para_mitig` not mitigating;
- a DRFM that leaves `drfm_issued_` set;
- a rank refresh that does not leave `refresh_q_`;
- a staggered `get_row_idx` without the bank skew;
- a DREAM threshold test dropped;
- an ABO back-off that does not reset `alert_n`, or that issues an RFMab
  directly;
- an ACT that polls for the alert before counting itself;
- a REFab that stays in `refresh_q_` (Timing).

Findings are in `PROJECT.json`:
- code bugs: a DRFM request lost to the duplicate check of `RankNeedDRFM`;
  DREAM overflowing other banks' samplers through `insert_drfm`; the
  address-0 RCC writeback lost; Graphene's re-insertion at count 1; a
  PREab that closes banks whose own tRAS or write recovery has not
  passed.

Several violations have properties in `CommandQueue.tla` but no run of
their own, to stay within the budget of twelve runs. The hazards list in
`PROJECT.json` records them:
- `PreActIssued`: the lazy re-announce.
- `GrapheneSampledOnce`: Graphene samples the same row again and again.
- `HydraCountsSound` with `drfm_qsize = 2` in `hydra_eager.cfg`:
  `drfm_mitig` returns the next entry's row through the erased iterator,
  and `hydra_mitig` zeroes that row's counter.
- `MoatTracked` (spec §2: MOAT tracks the row with maximum PRAC) under
  `moat_abo.cfg`. `moat_mitig` bumps the neighbours and forgets the
  tracker. A neighbour that is never activated again passes `moatth`
  untracked, so no alert can fire for it.
- `AlertServed` (`alert_n ~> ~alert_n`; spec §4: after tABO_act an RFMab
  is synthesized) under `moat_abo.cfg`. Only a bank-scope
  `GetReadyCommand` with a ready command serves the back-off. Requests
  served within the grace window, then no traffic, leave `alert_n` set for
  ever.

The lazy-policy livelock (`RequestsServed` violated) was run in earlier
sittings with `para_prob = 1.0`. TLC also finds it with DREAM at
`dream_th = 2`. One bank's ACT opens its row, and through `dream_preact`
it fills both banks' samplers. The other bank's next announce launches a
DRFMab, whose PREab closes the first row before its column command. The
two banks then swap roles for ever. Its run was retired for `dream_overflow`. The
hazard on `channel_state.cc:779` records both.

The constructor of `BankState` initialises the tracker state in an
`else if` chain over the modes, so the modes are exclusive. The runs
therefore enable one tracker at a time (PARA alone in `core_eager`). DREAM
is a channel mode, and its runs turn PARA off.
Hazards that need unusual parameters are listed in `PROJECT.json` and not
run. One example is `rows` not being a multiple of `hydra_gct_size`, which
leaves rows of an overflowing group unseeded.

### Bounds

- Two banks, two rows, one column. That is enough for a row hit, a row miss
  (PRECHARGE), scope commands over more than one bank, and two banks racing
  in one scan.
- `RfmTh = 2` and `DrfmQSize = 1` let a bank reach the RFM threshold and fill
  its sampler within the request bound.
- `MaxReqs` is 4 (pass runs) or 5 (the DRFM-loss runs). The loss needs one
  bank with two ACTs and a third request, and another bank with one ACT and
  a retry.
- One refresh.
- Hydra: one GCT group with `hydra_gct_th = 1`, so the first ACT overflows
  it and every later ACT goes through the RCC. A one-way RCC makes every
  alternation of rows a miss with a dirty eviction. `MaxReqs = 5` is the
  least that queues a writeback and drains it. The wrong-row violation
  needs a two-entry sampler and 6 requests.
- DREAM: two banks and two rows with `dream_k = 1` give two counters.
  With the staggered policy, each counter covers a different row in each
  bank, so a wrong skew is visible. `dream_th = 3` needs two ACTs before
  the crossing within `MaxReqs = 3`. TLC reaches both the insertions and
  the `dream_mitig` zeroing.
- Graphene: three rows over a two-entry table, so the third row spills and
  a later row replaces an entry at the spillover count.

- MOAT/ABO: three rows, so that `moat_mitig` bumps neighbours on both
  sides, and `moatth = 2`. With `moatth = 1` and a one-cycle grace window,
  TLC meets a livelock. An ACT raises the alert, and the back-off's RFMab
  precharges the row before its READ. PRAC then grows without bound, and
  the state space is infinite.

- Timing: 2×2 banks, so that every scope row (same bank, same bank
  group, other bank group) applies. The distances are small but keep
  their order: tRC = tRAS + tRP, and tRRD_L > tRRD_S. With one command
  per cycle, two banks per group can issue an ACT at most every second
  cycle. tFAW = 9 makes the window close on the fifth ACT.

The mutant runs show that these bounds reach the behaviours each property
is about.

### Fairness

Every cycle the controller calls the queue, and every timing constraint is a
finite delay. So a cycle in which no bank is late and the FAW window is open
keeps coming. `Fairness` is weak fairness of `\E in \in OnTime : Tick(in)`.
It is written out with the state predicate `TickMoves` in place of ENABLED.
This is the same formula, and it keeps TLC from re-evaluating the cycle
inside ENABLED. Under `AlertMode = 1`, an on-time cycle also has `aboDue`: the clock
always passes `tABO_act + last_alert_clk_` eventually. The random draws are not assumed fair: the passing liveness
results hold for every choice of draws.

In `Timing.tla`, `FairSpec` is `Spec /\ WF_vars(Cycle)`, where `Cycle`
is one clock cycle: a command issued, or `Idle` (no command, the waits
count down). `Controller::ClockTick` runs every cycle, so the clock never
stops; the arrival of a refresh (`NeedRefresh`) is outside `Cycle` and is
never forced. Which command a cycle issues is left free: `RefreshIssued`
holds because, once a REFab is pending, the scan itself only offers PREab,
REFab or idling.

## Not modelled (yet)

- In `CommandQueue.tla`, timing is still an input of the cycle. `Timing.tla`
  leaves out READ/WRITE_PRECHARGE, other ranks, the bankset and
  RFM/DRFM/SREF rows, and t32AW.
- ABACUS: disabled in every run. MOAT runs alone: `moat_max_prac_idx_` is
  initialised only when MOAT is the first mitigator of the constructor's
  `else if` chain, so MOAT combined with another mitigator reads an
  uninitialised tracker.
- Configuration (`configuration.h`): parameter parsing and derived values.
  The model takes the parameters as CONSTANTS.
- DREAM's random policy (`dream_policy = 2`): its masks are drawn by
  `rand()` in the constructor. The `fgr_counter_ == 7` reset of
  `dream_refresh` is modelled, but it needs `banks_per_group >= 4` with
  REFsb, so the checked instances never take it.
- `graphene_entries_` is derived from timing parameters in the code; here
  it is a constant.
- PER_RANK queues.
- More than one rank.
- The bank's own FGR counter, and the statistics (DREAM's mode-0
  quantile dump included).

The hazards list in `PROJECT.json` names each of these, with the code lines
involved.

## Plan

1. Timing rows for RFMab/DRFMab and the bankset commands (PREsb/REFsb).
2. An abstract "sampler" spec that the MINT/PARA/Graphene modules refine
   (`INSTANCE ... WITH`).
3. ABACUS, in the same shape as DREAM (per-row `rac`/`sav`, channel-wide
   insertion).
