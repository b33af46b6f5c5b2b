--------------------------- MODULE SecureDisplay ----------------------------
(***************************************************************************)
(* How the CLI shows a mnemonic or a private key: a warning, then one word *)
(* at a time with a countdown, on the alternate screen of the terminal in  *)
(* raw mode; on the plain screen when the terminal has no alternate one.   *)
(* Runs follow one another on one terminal, which keeps what they leave.   *)
(*                                                                         *)
(* Abstractions.  A screen is the set of secrets that can be read on it.   *)
(* What the terminal refuses from now on is in "broken": writing to it,    *)
(* setting its mode, reading keys; a call whose result the code ignores    *)
(* has no effect then, a print panics and the display is dropped.  Keys    *)
(* the code ignores change nothing and are no action.  A run that is       *)
(* killed leaves the terminal as it is and is not modelled.                *)
(***************************************************************************)
EXTENDS Naturals, Sequences

CONSTANTS
  WordCount,       \* words of the mnemonic
  Timeout,         \* WORD_TIMEOUT_SECS and PRIVATE_KEY_TIMEOUT_SECS, in ticks
  NULL

VARIABLES
  terminal,        \* what stdout is: see Terminals
  broken,          \* what the terminal no longer does
  raw,             \* the terminal is in raw mode
  screen,          \* the screen it shows
  content,         \* content[s]: the secrets on screen s
  pc,              \* where the run is
  plain,           \* the run shows on the plain screen, without an alternate one
  active,          \* alternate_screen_active: the run's cleanup has to leave it
  shown,           \* the words the run has shown, in order
  remaining,       \* ticks before the secret goes by itself
  result           \* how the last run ended, NULL while one is in progress

tty == <<raw, screen, content>>
run == <<pc, plain, active, shown, remaining, result>>
vars == <<terminal, broken, tty, run>>

(* A full terminal, one without a size or a usable TERM, a file or a pipe. *)
Terminals == {"full", "dumb", "stream"}
Capabilities == {"write", "mode", "input"}
Words == 1..WordCount
Key == 0
Secrets == Words \cup {Key}
Screens == {"main", "alternate"}
Points == {"idle", "warn", "warned", "enter", "word", "wait", "completed", "key", "keywait"}
Results == {"completed", "cancelled", "failed"}

ASSUME DisplayAssumption ==
  WordCount \in Nat \ {0} /\ Timeout \in Nat \ {0} /\ NULL \notin Results
-----------------------------------------------------------------------------
Works(capability) == capability \notin broken

(* is_alternate_screen_supported                                           *)
Supported == terminal = "full"

(* Clear(ClearType::All): nothing goes from a file.                        *)
Cleared ==
  IF Works("write") /\ terminal # "stream" THEN [content EXCEPT ![screen] = {}] ELSE content

RawOn == raw \/ Works("mode")
RawOff == raw /\ ~Works("mode")

(* cleanup_alternate_screen, which Drop repeats when a run fails.          *)
LeaveScreen ==
  /\ screen' = IF active /\ Works("write") THEN "main" ELSE screen
  /\ active' = FALSE

CleanupKeepingRaw == LeaveScreen /\ UNCHANGED raw
Cleanup == LeaveScreen /\ raw' = RawOff

Return(how) ==
  /\ pc' = "idle" /\ result' = how
  /\ plain' = FALSE /\ remaining' = 0
  /\ UNCHANGED <<terminal, broken, shown>>

Cancelled == IF Works("write") THEN "cancelled" ELSE "failed"

(* A write, or a read of keys, whose failure is not ignored.               *)
Fail ==
  /\ \/ /\ ~Works("write") /\ pc \notin {"idle", "warned", "completed"}
        /\ pc = "keywait" => plain \/ remaining > 0
     \/ /\ ~Works("input")
        /\ \/ pc \in {"warned", "completed"}
           \/ pc \in {"wait", "keywait"} /\ ~plain /\ remaining > 0
  /\ Cleanup
  /\ Return("failed")
  /\ UNCHANGED content
-----------------------------------------------------------------------------
(* "wallet create", "show-mnemonic" or "show-private-key".                 *)
Begin(point) ==
  /\ pc = "idle"
  /\ pc' = point /\ shown' = <<>> /\ result' = NULL
  /\ UNCHANGED <<terminal, broken, tty, plain, active, remaining>>

(* show_timeout_warning: enters a screen of its own if it can.             *)
Warn ==
  /\ pc = "warn" /\ Works("write")
  /\ LET alternate == Supported /\ Works("mode") IN
       /\ screen' = IF alternate THEN "alternate" ELSE screen
       /\ content' = IF alternate THEN [content EXCEPT !["alternate"] = {}]
                     ELSE IF Supported THEN content ELSE Cleared
       /\ plain' = ~alternate
  /\ raw' = RawOn
  /\ pc' = "warned"
  /\ UNCHANGED <<terminal, broken, active, shown, remaining, result>>

CloseWarning ==
  /\ pc = "warned" /\ Works("input")
  /\ content' = Cleared
  /\ raw' = RawOff
  /\ screen' = IF ~plain /\ Works("write") THEN "main" ELSE screen
  /\ UNCHANGED active

AcceptWarning ==
  /\ CloseWarning
  /\ pc' = "enter" /\ plain' = FALSE
  /\ UNCHANGED <<terminal, broken, shown, remaining, result>>

CancelWarning ==
  /\ CloseWarning
  /\ Return(Cancelled)

(* enter_alternate_screen, or the way to display_fallback.                 *)
EnterOn(target) ==
  /\ pc = "enter" /\ Works("write")
  /\ LET alternate == Supported /\ Works("mode") IN
       /\ screen' = IF alternate THEN target ELSE screen
       /\ content' = IF alternate THEN [content EXCEPT ![target] = {}] ELSE content
       /\ raw' = IF alternate THEN TRUE ELSE RawOff
       /\ active' = alternate
       /\ plain' = ~alternate
  /\ pc' = "word"
  /\ UNCHANGED <<terminal, broken, shown, remaining, result>>

EnterMain == EnterOn("main")
EnterScreen == EnterOn("alternate")

(* The next word on what is left of the screen, or the last message.       *)
ShowWordOver(left) ==
  /\ pc = "word" /\ Works("write") /\ Len(shown) < WordCount
  /\ content' = [left EXCEPT ![screen] = @ \cup {Len(shown) + 1}]
  /\ shown' = Append(shown, Len(shown) + 1)
  /\ raw' = IF plain THEN RawOn ELSE raw
  /\ remaining' = Timeout
  /\ pc' = "wait"
  /\ UNCHANGED <<terminal, broken, screen, plain, active, result>>

ShowWordBelow == ShowWordOver(content)
ShowWordAgain ==
  /\ pc = "word" /\ Works("write") /\ Len(shown) < WordCount
  /\ content' = [Cleared EXCEPT ![screen] = @ \cup {Len(shown) + 1}]
  /\ raw' = IF plain THEN RawOn ELSE raw
  /\ remaining' = Timeout
  /\ pc' = "wait"
  /\ UNCHANGED <<terminal, broken, screen, plain, active, shown, result>>
ShowWord == ShowWordOver(Cleared)

ShowCompletion ==
  /\ pc = "word" /\ Works("write") /\ Len(shown) = WordCount
  /\ content' = Cleared
  /\ pc' = "completed"
  /\ UNCHANGED <<terminal, broken, raw, screen, plain, active, shown, remaining, result>>

(* One turn of a waiting loop without a key: the countdown goes on.        *)
Turn(left) ==
  /\ pc \in {"wait", "keywait"}
  /\ Works("write") /\ (plain \/ Works("input"))
  /\ remaining' = left
  /\ UNCHANGED <<terminal, broken, tty, pc, plain, active, shown, result>>

TickPastZero == Turn(remaining - 1)
TickToOne == remaining > 1 /\ Turn(remaining - 1)
Tick == remaining > 0 /\ Turn(remaining - 1)

(* wait_for_word_confirmation, fallback_word_timeout_wait: it returns.     *)
LeaveWord ==
  /\ pc = "wait"
  /\ plain => Works("write")
  /\ content' = IF plain THEN Cleared ELSE content

NextWord ==
  /\ LeaveWord
  /\ pc' = "word" /\ remaining' = 0
  /\ raw' = IF plain THEN RawOff ELSE raw
  /\ UNCHANGED <<terminal, broken, screen, plain, active, shown, result>>

WordTimeout == remaining = 0 /\ NextWord
ConfirmWord == remaining > 0 /\ Works("input") /\ Works("write") /\ NextWord

CancelWords ==
  /\ remaining > 0 /\ Works("input") /\ Works("write")
  /\ LeaveWord
  /\ Cleanup
  /\ Return("cancelled")

CloseCompletion ==
  /\ pc = "completed" /\ Works("input")
  /\ content' = IF plain THEN Cleared ELSE content
  /\ Cleanup
  /\ Return("completed")

(* display_private_key_securely: only a file, or no raw mode, is shown the *)
(* key on the plain screen, where nothing is cleared before or after it.   *)
ShowKey ==
  /\ pc = "key" /\ Works("write")
  /\ LET alternate == terminal # "stream" /\ Works("mode") IN
       /\ screen' = IF alternate THEN "alternate" ELSE screen
       /\ content' = IF alternate THEN [content EXCEPT !["alternate"] = {Key}]
                     ELSE [content EXCEPT ![screen] = @ \cup {Key}]
       /\ raw' = IF alternate THEN TRUE ELSE raw
       /\ active' = alternate
       /\ plain' = ~alternate
  /\ remaining' = Timeout
  /\ pc' = "keywait"
  /\ UNCHANGED <<terminal, broken, shown, result>>

CloseKey ==
  /\ pc = "keywait"
  /\ plain => Works("write")
  /\ Cleanup
  /\ Return("completed")
  /\ UNCHANGED content

KeyTimeout == remaining = 0 /\ CloseKey
PressKey == remaining > 0 /\ Works("input") /\ Works("write") /\ CloseKey

(* The terminal goes away, or the input is redirected from what cannot be  *)
(* polled.                                                                 *)
Break(capability) ==
  /\ broken' = broken \cup {capability}
  /\ UNCHANGED <<terminal, tty, run>>

Init ==
  /\ terminal \in Terminals
  /\ broken = {}
  /\ raw = FALSE /\ screen = "main" /\ content = [s \in Screens |-> {}]
  /\ pc = "idle" /\ plain = FALSE /\ active = FALSE
  /\ shown = <<>> /\ remaining = 0 /\ result = "completed"

(* What the program does by itself, and what it waits for.                 *)
Program ==
  \/ Warn \/ EnterScreen \/ ShowWord \/ ShowCompletion \/ Tick
  \/ WordTimeout \/ ShowKey \/ KeyTimeout \/ Fail

User ==
  \/ Begin("warn") \/ Begin("key")
  \/ AcceptWarning \/ CancelWarning
  \/ ConfirmWord \/ CancelWords \/ CloseCompletion \/ PressKey

Next == Program \/ User \/ \E capability \in Capabilities : Break(capability)

Spec == Init /\ [][Next]_vars

(* The waiting loops poll for 100 ms at a time and look at the clock: the  *)
(* program goes on whether or not a key is pressed.                        *)
FairSpec == Spec /\ WF_vars(Program)
-----------------------------------------------------------------------------
OnScreen == content[screen]

(* Every variable keeps its type.                                          *)
TypeOK ==
  /\ terminal \in Terminals /\ broken \subseteq Capabilities
  /\ raw \in BOOLEAN /\ screen \in Screens /\ content \in [Screens -> SUBSET Secrets]
  /\ pc \in Points /\ plain \in BOOLEAN /\ active \in BOOLEAN
  /\ shown \in Seq(Words) /\ remaining \in 0..Timeout
  /\ result \in Results \cup {NULL}

(* Whatever was left by the runs before and whichever calls fail, at most  *)
(* one word of a mnemonic can be read on a terminal, the one the run has   *)
(* come to, and none when no run is in progress.                           *)
OneWordAtATime ==
  terminal # "stream" /\ Works("write") =>
    OnScreen \cap Words \subseteq
      IF pc \in {"wait", "word"} /\ shown # <<>> THEN {Len(shown)} ELSE {}

(* The scrollback of a terminal that can do it never holds a secret: all   *)
(* of them are on the alternate screen, unless the raw mode was refused.   *)
MainStaysClean ==
  terminal = "full" /\ Works("mode") => content["main"] = {}

(* A run gives the terminal back as it was, whichever way it ends: out of  *)
(* raw mode and on the main screen.  The exception is the code's: a        *)
(* warning that cannot read keys returns without leaving its screen, which *)
(* alternate_screen_active does not know of.                               *)
TerminalRestored ==
  pc = "idle" /\ Works("write") /\ Works("mode") =>
    /\ ~raw
    /\ screen = "alternate" => result = "failed" /\ ~Works("input")

(* What these rest on.  The words come in their order, and the last screen *)
(* after all of them.  While something is shown the run is either plain or *)
(* on the alternate screen it has to leave; the terminal is in raw mode    *)
(* only where keys are awaited, and on the alternate screen only then, or  *)
(* after a warning that lost its input; the screen under the alternate one *)
(* holds no word.                                                          *)
Showing == pc \in {"word", "wait", "completed", "keywait"}

OrderInv ==
  /\ \A i \in DOMAIN shown : shown[i] = i
  /\ pc = "completed" => Len(shown) = WordCount

ModeInv ==
  /\ Showing => plain # active
  /\ active => Showing /\ screen = "alternate"
  /\ pc = "warned" /\ ~plain => terminal = "full"
  /\ raw /\ Works("mode") => Showing \/ pc = "warned"
  /\ screen = "alternate" /\ Works("write") /\ Works("mode") =>
       \/ active
       \/ pc = "warned" /\ ~plain
       \/ /\ terminal = "full" /\ ~Works("input")
          /\ pc \in {"idle", "warn", "key"} /\ (pc = "idle" => result = "failed")

ContentInv ==
  /\ terminal = "full" /\ Works("mode") /\ Showing => active
  /\ terminal # "stream" /\ Works("write") /\ screen = "alternate" =>
       content["main"] \cap Words = {}

(* What is ahead of a run at most: its screens, and the ticks of the words *)
(* still to come.                                                          *)
WordsAhead == (WordCount - Len(shown)) * (Timeout + 4)

Ahead ==
  CASE pc = "idle"      -> 0
    [] pc = "completed" -> 1
    [] pc = "word"      -> WordsAhead + 2
    [] pc = "wait"      -> WordsAhead + remaining + 3
    [] pc = "enter"     -> WordCount * (Timeout + 4) + 3
    [] pc = "warned"    -> WordCount * (Timeout + 4) + 4
    [] pc = "warn"      -> WordCount * (Timeout + 4) + 5
    [] pc = "keywait"   -> remaining + 1
    [] pc = "key"       -> Timeout + 2

(* Every step of a run, the program's or the user's, brings it closer to   *)
(* its end: no word comes back, no countdown starts again, and no failure  *)
(* leads back to a screen that was left.                                   *)
RunsGoOn == [][pc # "idle" => Ahead' < Ahead]_run

(* A secret goes from the terminal by itself, with no key pressed; but not *)
(* the key on the plain screen, which says "Press Enter to clear".         *)
SecretsGo ==
  \A s \in Secrets :
    s \in OnScreen /\ terminal # "stream"
      ~> s \notin OnScreen \/ ~Works("write") \/ (s = Key /\ ~Works("mode"))
=============================================================================
