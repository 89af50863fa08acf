# A TLA+ verification of the Zephyr RISC-V test suite

The repository ports a bare-metal RV64 test suite (MMU, interrupts, atomics,
two harts) to Zephyr on QEMU. It holds the original suite
(`rv64gcv-baremetal-testsuite-main/`), a port that runs its tests verbatim
(`baremetal/`), a rewrite as ztest cases (`zephyr-suite/`), and the Sv39 MMU
support that the rewrite needed in the Zephyr kernel (`zephyr-changes/`). What
can go wrong in it is the runtime under the tests: trap forwarding between two
privilege levels, a wake-up protocol between two harts, page tables against a
TLB, and a fault handler that repairs and retries. That runtime is what these
modules model. The tests are modelled too, as programs over the runtime: a test
suite is correct when it passes on every conforming machine.

Paths below are relative to the repository; `suite/` abbreviates
`rv64gcv-baremetal-testsuite-main/`.

## Inventory

| Part | State | Operations | What is hard | What makes it correct |
|---|---|---|---|---|
| M-mode firmware (`suite/common/m_trap.c`, `boot.S`) | CLINT `mtimecmp`, `msip`; `mie.MTIE`, `mip.STIP/SSIP` | timer and IPI forwarding, `SBI_SET_TIMER`, `SBI_SEND_IPI`, `SBI_CLEAR_IPI`, ecall reflection, panic | another hart writes `msip` while the handler runs; the timer disarms itself | no IPI lost, timers one-shot and faithful |
| S-mode trap handler (`suite/common/smode.c`, `boot.S`) | `sstatus.SIE/SPIE`, `sie`, `g_trap` | software and timer interrupt, page fault, ecall | nested and simultaneous interrupts; fix and retry | not re-entered; every interrupt acknowledged; one fault fixes a page |
| Suite page tables (`smode.c`) | the 8-page pool, `satp`, TLB | `pt_alloc_page`, `pt_map_page`, `pt_walk`, fences | stale translations, superpages, pool end | accesses reach the mapped frame, nothing else changes |
| Park loop and wake-up (`smode.c`, `boot.S`) | `g_core1_smode_ready`, `g_smode_target` | boot, park, `wake_core1_smode` | races of the two harts and of `wfi` | each function is run, once and in order |
| Phases P1A-P1D, P2, P4 (`suite/tests/`) | `g_trap`, `g_p4`, assertion codes | their statements | interrupts and timeouts at any point; P4 under a weak memory order | no false alarm, the phase ends |
| Verdict and console (`smode.c`, `spike_uart.c`, port's `smode.c`, `m_trap.c`) | HTIF `tohost`, finisher, exit status | `uart_putc`, `test_pass`, `test_fail`, panic | one mailbox for two uses and two harts; 8-bit exit status | the status can be believed and comes |
| Zephyr Sv39 (`zephyr-riscv-port.patch`, `mmu.c`) | table pool, `mmu_table_used`, TLB | init, `arch_mem_map`, `arch_mem_unmap`, `map_raw`, `pte_lookup` | superpages, fences, no free of tables | a flat address space; coherent TLB; no leak |
| Zephyr fault hook (`fatal.c`, `mmu.c` in the patch) | registered resolver | register, try fixup, retry or fatal | a resolver that does not repair is retried for ever; one left over repairs what it should not | repairs once, hides nothing |
| Zephyr MMU suites P1A-P1D (`zephyr-suite/p1*`) | page tables shared by tests, `expect_fault`, `fix_count` | their tests, `p1c_fixup`, fatal-error handlers | test order, stale TLB entries, A/D modes | no false alarm, each test ends |
| Zephyr interrupt suite, P3.1 (`p2_interrupts`, `p3_atomics`) | `k_timer`, `timer_sem`, counters | expiry, `k_sem_take` with timeout, `irq_lock`, LR/SC | late announcements, left-overs of the last test | every expiration one unit, no false alarm |
| Zephyr dual-core suite (`p4_dualcore`) | atomics, plain buffers, semaphores | pinned threads | memory order, semaphores at their limit | totals exact, nobody waits for ever |
| Example application (`app/`, `drivers/`) | `k_timer`, LED, sample, period | poll, `set_period_ms`, expiry | expiry between any two steps, failing GPIO | the LED follows the last request |
| P0, P3, `lib/custom` | - | straight-line checks | little of their own | see *Not modelled* |

Components interact by traps (S-mode code calls the firmware by `ecall`, the
firmware raises `STIP`/`SSIP`), by the CLINT words one hart writes for another,
by shared globals (`g_trap`, `g_p4`, `g_smode_target`), by page tables that
software writes and the walker reads, by callbacks from the kernel's timer and
fault paths, and by the mailbox the host polls. `PROJECT.json` lists all
components, and the hazards at the lines where they bite.

## Modules

* **TrapPath** - firmware, S-mode interrupt handler and their client. CSR and
  CLINT bits are sets of harts. M-mode code runs with interrupts off and is one
  step for its own hart, except `IRQ_M_SOFT`, whose two stores another hart can
  fall between. `s_trap_handler` is entry, acknowledgement and `sret`. `Client`
  makes every call of `test.h` at any time. `request` and `owed` are history
  variables: the deadline asked for and the IPI sent, not yet acknowledged.
  Boot is a constant: `BootMTIE = TRUE` is the suite's `boot.S`, `FALSE` the
  port's. `TimerHarts` are the harts whose S-mode code sets timers: hart 0 in
  the suite, since no function that hart 1 runs does. `FairSpec` adds the
  fairness of M mode.
* **TrapPathProofs**, **ParkWakeProofs**, **PageFaultProofs**,
  **Sv39MmuProofs**, **DualCoreProofs**, **ZephyrIrqProofs**,
  **VerdictProofs**, **BlinkProofs** - the theorems about the module each is
  named after, see *Proofs*.
* **P2Interrupts** (extends TrapPath) - `p2_interrupts.c` as a sequence of
  operations. Bounded loops may time out at any point, delays may be of any
  length, and `wfi` may complete at once, as the architecture allows.
* **ParkWake** (extends TrapPath) - `_start`, the park loop,
  `wake_core1_smode` and the P4 tests, each reduced to how it synchronises.
  `clearsBss` and `wfiSleeps` are the platform, chosen in the initial state.
  Memory is sequentially consistent; what RVWMO adds is in DualCore.
* **DualCore** - what both harts load, store and fence in P4 (suite) and in
  `p4_dualcore` (Zephyr). A bare-metal test begins inside `wake_core1_smode`:
  the reset of `g_p4`, `fence_expected` and `g_smode_target` are in `reset`, on
  their way to memory, and no fence orders them before the last (smode.c:369).
  Hart 1 starts when `g_smode_target` is there, hart 0 goes on when all are (the
  fence of line 370). A hart has a buffer of stores on their way to memory and
  may satisfy plain loads early; fences, atomics and kernel calls order what
  they order. `weak` chooses RVWMO or harts that keep loads and stores in order.
* **Verdict** - `uart_putc`, `test_pass`, `test_fail`, the panic of the
  firmware, and the host: Spike's mailbox or QEMU's finisher. A text is its
  number of characters; a `tohost` word is its device and its payload.
* **AddressSpace** - the abstract specification of an address space: a flat map,
  changed one leaf at a time.
* **Sv39Mmu** - `mmu.c` of the patch, with `AddressSpace` instantiated by the
  hardware's walk as refinement mapping. A map or unmap call is one step per
  page, then the fence; the walker may fill the TLB between any two steps. The
  calls are constants. `perm_from_flags` is the permission set of a call, to
  which `map_page` adds A and D.
* **ZephyrP1** (extends Sv39Mmu) - the four MMU suites as programs over
  Sv39Mmu, the page-fault hook, the resolver `p1c_fixup`, whose PTE store and
  fence are two steps, and the fatal-error handlers. A data pattern is the
  frame it was written to.
* **ZephyrIrq** - the interrupt suite and P3.1 on the kernel services they use:
  one timer, one semaphore, timed waits, an announcement that serves what is
  due in order of deadline and may come late. The timer interrupt is first a
  trap of the firmware (`MTimerTrap`), which `irq_lock` does not hold off, and
  then the S-mode interrupt.
* **PageFault** - the suite's tables, `pt_walk` and page-fault handler, with a
  TLB that may also cache faults, and both A/D schemes (`svadu`). A table write
  that leaves the pool ends the run with the code 999, which no test has.
* **P1Faults** (extends PageFault) - the phases P1A to P1D as programs.
* **Blink** - `main` and both drivers of the example application. Time is
  abstract: a running timer may expire at any moment. `smp` chooses whether the
  expiry handler may run beside the thread.
* **MC*** - the instances for TLC.

Operators named `X_...` under a "Bug variant" comment are single mistakes in
the definition they precede, kept to show that each property can fail.

## Runs

| Run | Result | Shows |
|---|---|---|
| trap_safety | pass | `TimerFaithful`, `IpiNotLost`, `HandlerMasked` for two harts; an IPI becomes `SSIP` though both harts send and their IPIs cross |
| p2_interrupts | pass | with MTIE off at boot no delivery assertion of P2 can fail (660 only after a `wfi` that completed with nothing pending) and P2 ends; an armed deadline becomes `STIP`, and what is pending and enabled is acknowledged |
| park | pass | calls are fresh, stores stay in their test, results are genuine, workers return; the first function runs, or the ready flag was wiped, or hart 1 overslept |
| park_lost | violation | a new function is erased by the reset for the old one |
| sv39 | pass | table tree, no leak or panic, tables reachable, TLB coherent; Sv39Mmu implements AddressSpace |
| page_fault | pass | one fault fixes a page and only it; accesses end at their frame |
| p1_phases | pass | P1A to P1D pass on every conforming TLB and A/D scheme |
| zephyr_p1 | pass | so do Zephyr's, in any order of tests; the A/D mode printed is the hardware's; no expectation outlives its test |
| zephyr_irq | pass | Zephyr's P2 passes however late interrupts come, and P3.1 unless the firmware's timer trap falls between LR and SC; no expiration is lost or counted twice; every test ends |
| dual_core | pass | the dual-core tests pass under RVWMO where their fences suffice, on in-order harts all of them; no semaphore unit is lost; nobody waits for ever, but for a flag that a reset of `g_p4` erased |
| verdict | pass | a status of 0 means `test_pass` (or code 512); one hart loses no output; hart 0's verdict ends the run |
| blink | pass | timer and LED are as last requested; a blinking LED goes on blinking |

**Bounds.** `trap_safety`: 2 harts are every sender/target relation there is,
one with a timer and one without, as in the suite (so they are not symmetric),
and a second tick adds no new relation of comparator and time; counters are cut
to one value because no property there reads them. `p2_interrupts` has one hart
and eight ticks, more than the seven deadlines P2 arms: with a second hart, an endless
stream of IPIs would keep the first in `IRQ_M_SOFT`, which outranks the timer; that is
a limit of the firmware, listed as a hazard. `park` runs the order of kinds of
P4, `park_lost` the shortest sequence that loses a function. Tables have 4
entries in `Sv39Mmu` (I/O, kernel, tests and a gigapage need a root slot each),
3 in `PageFault` (whose pool starts one page into the SRAM, because
`link.ld` puts `.text` before it), 8 in `P1Faults` and 16 in `ZephyrP1`, where
the tests' table indices are kept. `ZephyrP1`'s image has 15 pages, so that P1D.4's
last offset lies inside its megapage and the far end behind the image. That the
image fits a megapage is an assumption of the test (`ImageFits`), which its code
does not check; with a larger one it would fault. Loops over 8 and 128 pages are cut to 2. The pool of `sv39` is exactly
as large as the calls need, so that one leaked table exhausts it. TLBs are
observed at the pages where a call remaps, fixes or covers with a superpage.
`zephyr_p1` runs 3 tests of a suite in one boot, in every order (2 of P1B's 12,
which share less); a counter `fix_count` counts modulo 8. `zephyr_irq` runs all
6 tests in every order, with interrupts up to `Late = 5` ticks overdue, more
than the longest timeout of 4; `Want = 5` is the code's own number. `dual_core`
cuts loops of 20 to 100 turns to `Rounds = 3`: a turn leaves nothing behind but
the shared counters. `verdict` has texts of up to 2 characters, one interrupted
and one not, and codes on both sides of the 8-bit boundary. `blink` uses the
application's own step and maximum; unsigned arithmetic wraps at 65536 instead
of 2^32.

**Deadlock** checking is off where a program ends: a phase stops at its verdict,
a host process exits, all tests have run, `main` returns.

**Fairness.** Weak fairness on each hart's execution and on the clock: a hart
that can execute does, and `mtime` counts. `trap_safety` needs only that a hart
takes its M-mode interrupts and leaves their handler (`FairSpec`). `DualCore` adds that a buffered store
reaches memory, as RVWMO requires; `Verdict` that Spike polls its mailbox;
`ZephyrP1` that the test thread runs. Two modules need strong fairness. In
`ZephyrIrq` the clock and the thread go on however often interrupts come
between, because an interrupt disables both only while it is served. In `Blink`
`gpio_pin_toggle_dt` does not fail for ever. Nothing else is assumed: not that
client code calls anything, not that loops outlast interrupts, not that the TLB
ever drops an entry, not that a test ends on its own.

## Findings

`park_lost`: a function sets its done flag before it returns, so hart 0 may
publish the next one before hart 1 executes `g_smode_target = 0`, and that one
never runs. `PROJECT.json` quotes the line.

The properties of the passing runs name their exceptions. Each is a limit of the
code that TLC shows when the exception is taken away:

* `BootMTIE = TRUE` (the suite's `boot.S` with `mtimecmp = 0`): P2.1 counts two
  interrupts. The port met and fixed this (`PORTING_NOTES.md`).
* `P2Sound` for 660: a `wfi` that completes at once is legal, and P2.7 then reads
  `sip` before the timer is due.
* `FirstWakeRuns`, `ReadyWiped`: the late `.bss` loop of hart 0 wipes
  `g_core1_smode_ready` and hart 0 waits for ever. The port's RAM is zeroed.
* `FirstWakeRuns`, `Overslept`: the wake-up comes between the check of
  `g_smode_target` and a `wfi` that stalls, as QEMU's does, which halts the
  vCPU. Only a `wfi` that completes early hides it. The property says that there
  is no third way for the first wake to fail.
* `WorkersReturn` and `DCEnds` for P4.1B: its worker polls `fence_done` while
  hart 0 zeroes `g_p4` (line 185), and may spin for ever. `DCEnds` says that hart
  0 gets to the end nevertheless.
* `DCSound` for P4.0, P4.1B, P4.2 and P4.3 under RVWMO. The wake path has no
  fence between the reset of `g_p4` and `g_smode_target`, and none behind the
  park loop's load of it, so P4.1B's producer may send the old `fence_expected`
  (assertion 762), and the reset may come after what hart 1 stored. P4.0, P4.2
  and P4.3 moreover have no `fence r` between `spin_wait` and the value they
  assert, and P4.2 none between its AMOs and its done flag.
* `DCEnds` for the same tests under RVWMO: the late reset erases the flag that
  hart 1 has set, and hart 0 waits for ever.
* `ZP2Sound` for P3.1's SC: `irq_lock` clears `sstatus.SIE`, but on the smode
  board `MTIE` is on and MTIP traps to M mode whatever SIE is; that trap between
  `lr.d` and `sc.d` drops the reservation. The comment of `p3_atomics.c:161`
  ("irq_lock keeps the reservation from being dropped by a timer IRQ") promises
  more than the code does.
* `StatusSound` for code 512 (P1D.3, second pass, page 52): the process exits
  with 0, while `baremetal/common/smode.c:97` says that QEMU exits with the
  code.
* `StatusSound` and `VerdictReached` with two harts on Spike: the harts overwrite
  each other's words in `tohost`; characters and the failure of hart 1 can be
  lost, the verdict of hart 0 cannot.
* `LedFollows` with SMP: an expiry handler that already runs when `k_timer_stop`
  returns switches the LED on after it was switched off.

And one that has no property: the null check of `suite/common/smode.c:286`
cannot fire, since `pt_walk` always returns an entry; an access to an address
that nothing maps would be "fixed" into a gigapage at physical 0. No test makes
one, and the client of `PageFault` makes none.

## Proofs

TLAPS checks 24 theorems. Each holds for every value of the constants that meets
the assumptions of its module and the hypotheses named here; TLC evaluates the
former on every run, and the instances of the runs also satisfy the latter.

**TrapPathProofs**, for every set of harts, time bound, reset value and counter
width:

* `TypeCorrect`: `Spec => []TypeOK`.
* `IpiIsNotLost`: `Spec => []IpiNotLost`. The invariant is inductive on its
  own: each step that takes a hart out of one of `msip`, `inM`, `ssip` puts it
  into the next, or acknowledges the IPI.
* `HandlerIsMasked`: `Spec => []HandlerMasked`. Inductive with `TypeOK`: SIE is
  set only by `sret`, which leaves the handler, and by code outside it.
* `TimerIsFaithful`, from `BootMTIE = FALSE`, without which it does not hold.
  `TimerFaithful` is inductive: its three cases (delivered, armed, idle) are what
  each timer step moves between.
* `InterruptPhaseSound`: `P2Spec => []P2Sound`, from `BootMTIE = FALSE` and
  `CounterWrap > 3` (P2.3 counts to three). `P2Inv` says what holds before each
  of the 73 operations of the phase. It rests on two predicates: `TimerDue` and
  `SoftDue`, a timer interrupt or an IPI that was asked for and is not counted
  yet. An interrupt moves one unit from "due" to its counter, so the sums
  (`TimerSum`, `SoftSum`, `FaultSum`) stay as they are wherever the interrupt
  falls (`CountKept`), and only the operations of the phase change them. That the
  timer which P2.4 may leave armed disturbs none of P2.5 to P2.7 is in `Masks`
  and `Dues`: nothing is claimed of it before P2.6 arms the timer anew.

**ParkWakeProofs**, for every sequence of tests and every platform:
`EveryCallIsFresh`, `StoresAreInOwnTest`, `EveryResultIsGenuine`. They are action
properties; the invariant behind them is `PWInv` (`ProtocolInvariant`). `Order` ties the numbers of the tests published, called
and completed; `Target` says that a published function is one hart 1 has not
called yet, unless hart 1 is still inside a function, and that it is there when
hart 1 comes to its second read; `Result` says that `g_p4` carries no result before the function that makes
it is called.

**PageFaultProofs**, for every size of table and pool, every TLB (one that
caches faults too), both A/D schemes and every client that is `UserSkipped`:
`OneFaultSuffices`, `FaultsAreGenuine`, `AccessReachesItsFrame`,
`FixesAreLocal`. `UserSkipped` says that a page mapped with U is accessed with
`handler_action = 1`, as P1B.7 does: the fixing handler does not clear U, and the
access would fault for ever. `PFInv` joins four parts. `Tree`: every table of the
pool has a level and the indices that lead to it, so that an entry of level 0
belongs to one page; without it a store through `pt_walk` could change another
page. `Mapped`: the walk of a page the client mapped ends at the frame it named.
`Coherent`: what is cached for a fenced page is what the walk says, up to A and D.
`Current`: in the retry the tables permit the access.

**Sv39MmuProofs**, for every size of table and pool and all calls that meet
`OneSize` (a superpage lies where no table is needed):

* `TablesFormTree`: `TableTree`. `MmuInv` gives every used table the path of
  indices that leads to it; that paths are unique is what makes `TableTree`, a
  statement about pointers, inductive.
* `PoolNeverExhausted`: `NeverFatal`, if the pool has a table for every slot the
  calls descend to (`EnoughTables`, met with equality by the instance of the
  run). Tables are never freed, so this needs that no slot gets a second one:
  the paths inject the used tables into the slots.
* `TablesImplementFlatMap`: `Spec => FlatSpec`. `Init` maps to `Init`; a call's
  store at a level changes the walks of the pages of one block, all together
  (`OneChange`), allocation changes none (`Same`), and every other step
  stutters.
* `TablesAlwaysReachable`: `TablesReachable`, if the calls keep the pool
  (`PoolKept`: the image that the boot loop maps holds the pool, a call that
  names a page of the pool maps it to itself, readable and writable, and no
  `arch_mem_unmap` names one). `ReachInv` adds how far the boot loop has come:
  once it has passed a page of the pool, the walk of that page stays what it
  mapped, by `OneChange`.
* `TlbAlwaysCoherent`: `TlbCoherent`, if edits are of pages mapped as 4 KB pages
  (`EditsSmall`), which is what an `sfence.vma` for one address covers.

**DualCoreProofs**: `NoGiveEverLost`, for every number of rounds and both memory
orders. The invariant gives the places of the two threads and the semaphores in
round `k`, which has four phases (`ToGive`, `Given`, `Taken`, `Answered`); all
other programs contain no `k_sem_give`.
`DualCoreTestsSound`: `DCSound`, under the same parameters. A lemma per operation
(`DoSt`, `DoLd`, `DoFenceW`, ...) says what it does to memory and buffer;
`Fresh(h, l)` says that no load of `l` was satisfied early with a value that memory
no longer holds. While stores of the wake are on their way, `Waking` says what
memory holds and that neither hart has got further than they allow; hart 1's
early start matters to the two tests that are sound under RVWMO, P4.1A and P4.4,
only as a wait for a flag that hart 0 sets after its fence (`HartsWait`). From
then on `SoundInv` has an invariant for each of the twelve tests, in terms of
places, buffers and memory:
* messages (P4.0, P4.1, `test_fence_producer_consumer`): the flag leaves the
  sender only when the payload is in memory, and what the receiver reads after its
  fence is fresh (`Sending`, `Receiving`, `FenceInv`);
* locks (P4.3, `test_spinlock_mutual_exclusion`): at most one hart is between the
  AMO that takes the lock and the moment its release *leaves the buffer*, and the
  counter is the sum of the rounds done, one more from the moment the increment is
  in memory (`Mutex`, `Exclusion`);
* turns (P4.4): the hart that the turn names has it until its store of the turn
  reaches memory (`HasTurn`);
* counters (P4.2, the stress test, the ponger): the AMOs issued are those in memory
  plus those in the buffer, ahead of the done flag (`Counting`).

P4.0, P4.1B, P4.2 and P4.3 have theirs only without `weak`, as `DCSound` says.

**ZephyrIrqProofs**: `NoExpiryEverLost`, for every lateness, every `Want` and
every order of tests; `NoExpiryLost` is inductive with the ranges of the counters.
`InterruptTestsSound`: `ZP2Sound`, under the same parameters. `SoundInv` says, for
each test and each of its operations, where the timer, the semaphore and the
deadline of the waiting thread stand before it (`In2_1` to `In2_5`, `In3_1`,
`Between`); the test of `Want` expirations is a loop whose turn is a parameter of
its place. What carries the proof is that a timeout never comes before the
expiration it waits for, however late both are announced. `Excused` ties a failed
SC to a dropped reservation, and `In3_1` says that without one the reservation
stands until the SC.

**VerdictProofs**: `StatusAlwaysSound`, for every length of text and every set
of codes in which 512 is the only multiple of 256 (`Codes512`; the suite's codes
are such a set). `Mailbox` says whose word is in `tohost`, `Console` where the
characters of one hart are, `Status` that an exit status is the low byte of a
reported verdict.

**BlinkProofs**: `LedAlwaysFollows`, for every step that divides the maximum,
which 100 does 1000: otherwise the unsigned period wraps. The invariant says at
each place of `set_period_ms` what the timer is.

The proofs changed the models where those could not be reasoned about: overlapping
guards of a CASE in `Sv39Mmu!Store`, whose choice of arm TLA+ leaves open, became
an IF; and `PageFault` now assumes that the pool does not start the SRAM, as
`link.ld` has it: `pt_map_page` descends through any valid entry, the kernel's
gigapage included, and if that page were the root table, such a call would
overwrite the root where it now leaves the pool.

**Only model-checked.** All liveness, which needs fairness and ENABLED. The
assertions of the MMU phases (`P1Sound`, `ZP1Sound`): an inductive invariant for
one of them describes the tables and the TLB at every place of fixed programs
that have no parameter TLC does not already explore. `NoStaleExpectation` and
`ModeIsHardwares` are invariants of the same programs and rest on the same facts:
that an expected fault comes is what the soundness of the program says.

## Not modelled

P3, Zephyr's P3 but for P3.1, and most of both P0 check single instructions and
kernel calls on one hart; they keep no state beyond their locals.
`lib/custom/custom.c` is one conditional. Texts are left out of every handler but
Verdict's. The time limits of tests (5 s, `SPIN_LIMIT`) stand for a failure; what
runs after one is not modelled. The Zephyr kernel is external: its timers,
semaphores, threads and `k_mem_map` are modelled from how the tests use them.
External interrupts are never enabled. The port's patch of the reset path is
start-up code without a choice of order; its effect is in `BootMTIE` and
`clearsBss`. Mixing page sizes over one address range makes `map_page` and
`pt_map_page` take a leaf for a table. Neither checks for it. No call of the
suites does it (`zephyr-suite/NOTES.md` keeps tests away from the kernel's pages
and the MMIO gigapage), and the instances and `OneSize` exclude it.

## Plan

Done: the models of all components listed as modelled, their runs, and theorems
for nine of the modules. Left:

1. `P1Sound` and `ZP1Sound` from the invariants of `PageFault` and `Sv39Mmu`.
