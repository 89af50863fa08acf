------------------------------ MODULE Verdict ------------------------------
(***************************************************************************)
(* How a run of the suite reports: uart_putc, test_pass, test_fail and the *)
(* panic of the M-mode firmware, and the exit status the host ends with.   *)
(*                                                                         *)
(* On Spike ("htif") console and verdict share the word tohost, which the  *)
(* host polls and clears.  On QEMU ("sifive", the port) the console is a   *)
(* UART and the verdict a store that ends the emulator at once.            *)
(***************************************************************************)
EXTENDS Integers

CONSTANTS
    Codes,     \* the codes test_fail is called with
    Causes,    \* the trap causes the M-mode firmware panics on
    MaxText    \* bound on the characters of a message

ASSUME CodesAssumption == Codes \subseteq Nat \ {0} /\ Causes \subseteq Nat
ASSUME TextAssumption == MaxText \in Nat \ {0}

Pass == 0
Open == -1
PanicCodes == {500 + cause : cause \in Causes}

\* A tohost word by its device field (bits 63..48) and its payload.
Word(dev, data) == [dev |-> dev, data |-> data]
Empty == Word(0, 0)

VARIABLES
    sink,       \* "htif" or "sifive"
    harts,      \* the harts that print: hart 0, and hart 1 in phase 4
    tohost,     \* the mailbox
    pc,         \* per hart: "run", a place in uart_putc or htif_write, "wfi"
    text,       \* per hart: the characters it still has to print
    verdict,    \* per hart: what it reports, Pass, a code, or Open
    stored,     \* the characters given to the console
    shown,      \* the characters the console has taken
    exit        \* the exit status of the host's process, Open while it runs

vars == <<sink, harts, tohost, pc, text, verdict, stored, shown, exit>>

-----------------------------------------------------------------------------
Init ==
    /\ sink \in {"htif", "sifive"} /\ harts \in {{0}, {0, 1}}
    /\ tohost = Empty
    /\ pc = [h \in harts |-> "run"]
    /\ text = [h \in harts |-> IF h = 0 THEN MaxText ELSE 0]
    /\ verdict = [h \in harts |-> Open]
    /\ stored = 0 /\ shown = 0 /\ exit = Open

\* The hart takes a step from here to there; the emulator still runs.
Goes(h, here, there) ==
    /\ exit = Open /\ pc[h] = here
    /\ pc' = [pc EXCEPT ![h] = there]

-----------------------------------------------------------------------------
(***************************************************************************)
(* uart_putc.  On HTIF: wait for the mailbox, store, wait until it is      *)
(* taken.  The UART of QEMU takes a character at once.                     *)
(***************************************************************************)
PutcPoll(h) ==
    /\ sink = "htif" /\ text[h] > 0 /\ tohost = Empty
    /\ Goes(h, "run", "putc")
    /\ UNCHANGED <<sink, harts, tohost, text, verdict, stored, shown, exit>>

PutcStore(h) ==
    /\ Goes(h, "putc", "drain")
    /\ tohost' = Word(1, 0) /\ stored' = stored + 1
    /\ UNCHANGED <<sink, harts, text, verdict, shown, exit>>

PutcDrain(h) ==
    /\ tohost = Empty
    /\ Goes(h, "drain", "run")
    /\ text' = [text EXCEPT ![h] = @ - 1]
    /\ UNCHANGED <<sink, harts, tohost, verdict, stored, shown, exit>>

PutcUart(h) ==
    /\ sink = "sifive" /\ text[h] > 0
    /\ Goes(h, "run", "run")
    /\ text' = [text EXCEPT ![h] = @ - 1]
    /\ stored' = stored + 1 /\ shown' = shown + 1
    /\ UNCHANGED <<sink, harts, tohost, verdict, exit>>

-----------------------------------------------------------------------------
(***************************************************************************)
(* The verdict.  test_pass is called by hart 0 at the end of s_mode_entry, *)
(* test_fail by an assertion or by s_trap_handler of either hart, after a  *)
(* text of its own.  The firmware panics without one, wherever the hart is.*)
(***************************************************************************)
Reports(h, v, chars) ==
    /\ verdict' = [verdict EXCEPT ![h] = v]
    /\ text' = [text EXCEPT ![h] = chars]
    /\ UNCHANGED <<sink, harts, tohost, stored, shown, exit>>

test_pass ==
    /\ verdict[0] = Open /\ text[0] = 0
    /\ Goes(0, "run", "run")
    /\ Reports(0, Pass, 1)

test_fail(h, code) ==
    /\ verdict[h] = Open
    /\ Goes(h, "run", "run")
    /\ \E chars \in 1 .. MaxText : Reports(h, code, chars)

panic(h, cause) ==
    /\ pc[h] # "wfi" /\ verdict[h] \notin PanicCodes
    /\ Goes(h, pc[h], "run")
    /\ Reports(h, 500 + cause, 0)

\* Bug variants: the word lacks the bit that makes it an exit; the mailbox is
\* not waited for.
HtifWord_NoBit(code) == Word(0, 2 * code)

HtifPoll_Not(h) ==
    /\ sink = "htif" /\ verdict[h] # Open /\ text[h] = 0
    /\ Goes(h, "run", "exit")
    /\ UNCHANGED <<sink, harts, tohost, text, verdict, stored, shown, exit>>

\* (code << 1) | 1; test_pass writes 1
HtifWord(code) == Word(0, 2 * code + 1)

\* htif_write, and the same two steps in the panic of m_trap_handler
HtifPoll(h) ==
    /\ sink = "htif" /\ verdict[h] # Open /\ text[h] = 0 /\ tohost = Empty
    /\ Goes(h, "run", "exit")
    /\ UNCHANGED <<sink, harts, tohost, text, verdict, stored, shown, exit>>

HtifStore(h) ==
    /\ Goes(h, "exit", "wfi")
    /\ tohost' = HtifWord(verdict[h])
    /\ UNCHANGED <<sink, harts, text, verdict, stored, shown, exit>>

\* 0x5555, or 0x3333 | (code << 16)
FinisherWord(code) == IF code = Pass THEN 21845 ELSE 13107 + code * 65536

\* The emulator ends with the code in the upper half of the word, of which
\* the exit status of a process keeps eight bits.
qemu_test_exit(h) ==
    /\ sink = "sifive" /\ verdict[h] # Open /\ text[h] = 0
    /\ Goes(h, "run", "wfi")
    /\ exit' = (FinisherWord(verdict[h]) \div 65536) % 256
    /\ UNCHANGED <<sink, harts, tohost, text, verdict, stored, shown>>

\* Spike: a console word is printed, an odd word of device 0 ends the run.
Host ==
    /\ sink = "htif" /\ exit = Open /\ tohost # Empty
    /\ tohost' = Empty
    /\ shown' = shown + tohost.dev
    /\ exit' = IF tohost.dev = 0 /\ tohost.data % 2 = 1
                 THEN (tohost.data \div 2) % 256 ELSE Open
    /\ UNCHANGED <<sink, harts, pc, text, verdict, stored>>

-----------------------------------------------------------------------------
Putc(h) == PutcPoll(h) \/ PutcStore(h) \/ PutcDrain(h) \/ PutcUart(h)

Report(h) == HtifPoll(h) \/ HtifStore(h) \/ qemu_test_exit(h)

Fails(h) ==
    \/ \E code \in Codes : test_fail(h, code)
    \/ \E cause \in Causes : panic(h, cause)

Next ==
    \/ \E h \in harts : Putc(h) \/ Report(h) \/ Fails(h)
    \/ test_pass \/ Host

\* A hart goes on printing and reporting, and Spike goes on polling.  Nothing
\* makes a test end.
Spec ==
    /\ Init /\ [][Next]_vars
    /\ \A h \in {0, 1} : WF_vars(h \in harts /\ (Putc(h) \/ Report(h)))
    /\ WF_vars(Host)

-----------------------------------------------------------------------------
\* The exit status can be believed: 0 means that hart 0 called test_pass, with
\* one exception, the fail code 512 of P1D.3, whose low eight bits are 0; and
\* a nonzero status is the low byte of a code that some hart failed with.
\* With one hart printing, the console has by then taken every character that
\* was stored, although a panic may interrupt uart_putc between any two steps.
StatusSound ==
    exit # Open =>
        /\ exit = 0 => \E h \in harts : verdict[h] \in {Pass, 512}
        /\ exit # 0 =>
             \E h \in harts : verdict[h] > 0 /\ verdict[h] % 256 = exit
        /\ harts = {0} => shown = stored

\* Once the test on hart 0 has a verdict the host ends, also when hart 1 fails
\* at the same time: a console word of one hart may overwrite the verdict of
\* the other in tohost, but never the last one.  On QEMU the failure of hart 1
\* alone ends the run; on Spike hart 0's own verdict may be needed for it.
VerdictReached ==
    (\E h \in harts : verdict[h] # Open /\ (h = 0 \/ sink = "sifive"))
        ~> exit # Open
=============================================================================
