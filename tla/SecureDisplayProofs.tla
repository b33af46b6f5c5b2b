------------------------- MODULE SecureDisplayProofs -------------------------
(***************************************************************************)
(* Theorems about SecureDisplay for a mnemonic of any length, any timeout, *)
(* and any sequence of runs and of calls that fail.                        *)
(***************************************************************************)
EXTENDS SecureDisplay, TLAPS

LEMMA Countdown ==
  /\ 0 \in 0..Timeout /\ Timeout \in 0..Timeout
  /\ \A n \in 0..Timeout : n > 0 => n - 1 \in 0..Timeout
  BY DisplayAssumption

LEMMA NextIsWord ==
  ASSUME TypeOK, Len(shown) < WordCount
  PROVE  Append(shown, Len(shown) + 1) \in Seq(Words) /\ Len(shown) + 1 \in Words
  BY DisplayAssumption DEF TypeOK, Words

LEMMA TypeInit == Init => TypeOK
<1> SUFFICES ASSUME Init PROVE TypeOK
  OBVIOUS
<1>1. raw \in BOOLEAN /\ plain \in BOOLEAN /\ active \in BOOLEAN
  BY DEF Init
<1>2. content \in [Screens -> SUBSET Secrets]
  BY DEF Init
<1>3. shown \in Seq(Words) /\ remaining \in 0..Timeout
  BY DisplayAssumption DEF Init
<1>4. pc \in Points /\ result \in Results \cup {NULL} /\ screen \in Screens
  BY DEF Init, Points, Results, Screens
<1>5. terminal \in Terminals /\ broken \subseteq Capabilities
  BY DEF Init
<1>6. QED
  BY <1>1, <1>2, <1>3, <1>4, <1>5 DEF TypeOK

LEMMA TypeNext ==
  TypeOK /\ [Next]_vars => TypeOK'
<1> SUFFICES ASSUME TypeOK, [Next]_vars PROVE TypeOK'
  OBVIOUS
<1> USE DEF TypeOK, tty, run
<1>1. CASE Warn
  BY <1>1, DisplayAssumption DEF Warn, Points, Screens, Secrets, Words, Results, Capabilities,
     RawOn, RawOff, Cleared, Supported, Works
<1>2. CASE EnterScreen
  BY <1>2, DisplayAssumption DEF EnterScreen, EnterOn, Points, Screens, Secrets, Words, Results, Capabilities,
     RawOn, RawOff, Cleared, Supported, Works
<1>3. CASE ShowWord
  <2>1. raw' \in BOOLEAN /\ active' \in BOOLEAN /\ plain' \in BOOLEAN
    BY <1>3 DEF ShowWord, ShowWordOver, RawOn, RawOff
  <2>2. content' \in [Screens -> SUBSET Secrets] /\ screen' \in Screens
    BY <1>3, NextIsWord DEF ShowWord, ShowWordOver, Screens, Secrets, Cleared
  <2>3. pc' \in Points /\ terminal' \in Terminals /\ broken' \subseteq Capabilities
    BY <1>3 DEF ShowWord, ShowWordOver, Points
  <2>4. shown' \in Seq(Words) /\ result' \in Results \cup {NULL}
    BY <1>3, NextIsWord DEF ShowWord, ShowWordOver, Results
  <2>5. remaining' \in 0..Timeout
    BY <1>3, Countdown DEF ShowWord, ShowWordOver
  <2>6. QED
    BY <2>1, <2>2, <2>3, <2>4, <2>5
<1>4. CASE ShowCompletion
  <2>1. raw' \in BOOLEAN /\ active' \in BOOLEAN /\ plain' \in BOOLEAN
    BY <1>4 DEF ShowCompletion, RawOn, RawOff
  <2>2. content' \in [Screens -> SUBSET Secrets] /\ screen' \in Screens
    BY <1>4 DEF ShowCompletion, Screens, Secrets, Cleared
  <2>3. pc' \in Points /\ terminal' \in Terminals /\ broken' \subseteq Capabilities
    BY <1>4 DEF ShowCompletion, Points
  <2>4. shown' \in Seq(Words) /\ result' \in Results \cup {NULL}
    BY <1>4 DEF ShowCompletion, Results
  <2>5. remaining' \in 0..Timeout
    BY <1>4, Countdown DEF ShowCompletion
  <2>6. QED
    BY <2>1, <2>2, <2>3, <2>4, <2>5
<1>5. CASE Tick
  <2>1. raw' \in BOOLEAN /\ active' \in BOOLEAN /\ plain' \in BOOLEAN
    BY <1>5 DEF Tick, Turn, RawOn, RawOff
  <2>2. content' \in [Screens -> SUBSET Secrets] /\ screen' \in Screens
    BY <1>5 DEF Tick, Turn, Screens, Secrets, Cleared
  <2>3. pc' \in Points /\ terminal' \in Terminals /\ broken' \subseteq Capabilities
    BY <1>5 DEF Tick, Turn, Points
  <2>4. shown' \in Seq(Words) /\ result' \in Results \cup {NULL}
    BY <1>5 DEF Tick, Turn, Results
  <2>5. remaining' \in 0..Timeout
    BY <1>5, Countdown DEF Tick, Turn
  <2>6. QED
    BY <2>1, <2>2, <2>3, <2>4, <2>5
<1>6. CASE NextWord
  <2>1. raw' \in BOOLEAN /\ active' \in BOOLEAN /\ plain' \in BOOLEAN
    BY <1>6 DEF NextWord, LeaveWord, RawOn, RawOff
  <2>2. content' \in [Screens -> SUBSET Secrets] /\ screen' \in Screens
    BY <1>6 DEF NextWord, LeaveWord, Screens, Secrets, Cleared
  <2>3. pc' \in Points /\ terminal' \in Terminals /\ broken' \subseteq Capabilities
    BY <1>6 DEF NextWord, LeaveWord, Points
  <2>4. shown' \in Seq(Words) /\ result' \in Results \cup {NULL}
    BY <1>6 DEF NextWord, LeaveWord, Results
  <2>5. remaining' \in 0..Timeout
    BY <1>6, Countdown DEF NextWord, LeaveWord
  <2>6. QED
    BY <2>1, <2>2, <2>3, <2>4, <2>5
<1>7. CASE ShowKey
  <2>1. raw' \in BOOLEAN /\ active' \in BOOLEAN /\ plain' \in BOOLEAN
    BY <1>7 DEF ShowKey, RawOn, RawOff
  <2>2. content' \in [Screens -> SUBSET Secrets] /\ screen' \in Screens
    BY <1>7 DEF ShowKey, Screens, Secrets, Cleared
  <2>3. pc' \in Points /\ terminal' \in Terminals /\ broken' \subseteq Capabilities
    BY <1>7 DEF ShowKey, Points
  <2>4. shown' \in Seq(Words) /\ result' \in Results \cup {NULL}
    BY <1>7 DEF ShowKey, Results
  <2>5. remaining' \in 0..Timeout
    BY <1>7, Countdown DEF ShowKey
  <2>6. QED
    BY <2>1, <2>2, <2>3, <2>4, <2>5
<1>8. CASE CloseKey
  <2>1. raw' \in BOOLEAN /\ active' \in BOOLEAN /\ plain' \in BOOLEAN
    BY <1>8 DEF CloseKey, Cleanup, LeaveScreen, Return, RawOn, RawOff
  <2>2. content' \in [Screens -> SUBSET Secrets] /\ screen' \in Screens
    BY <1>8 DEF CloseKey, Cleanup, LeaveScreen, Return, Screens, Secrets, Cleared
  <2>3. pc' \in Points /\ terminal' \in Terminals /\ broken' \subseteq Capabilities
    BY <1>8 DEF CloseKey, Cleanup, LeaveScreen, Return, Points
  <2>4. shown' \in Seq(Words) /\ result' \in Results \cup {NULL}
    BY <1>8 DEF CloseKey, Cleanup, LeaveScreen, Return, Results
  <2>5. remaining' \in 0..Timeout
    BY <1>8, Countdown DEF CloseKey, Cleanup, LeaveScreen, Return
  <2>6. QED
    BY <2>1, <2>2, <2>3, <2>4, <2>5
<1>9. CASE Fail
  <2>1. raw' \in BOOLEAN /\ active' \in BOOLEAN /\ plain' \in BOOLEAN
    BY <1>9 DEF Fail, Cleanup, LeaveScreen, Return, RawOn, RawOff
  <2>2. content' \in [Screens -> SUBSET Secrets] /\ screen' \in Screens
    BY <1>9 DEF Fail, Cleanup, LeaveScreen, Return, Screens, Secrets, Cleared
  <2>3. pc' \in Points /\ terminal' \in Terminals /\ broken' \subseteq Capabilities
    BY <1>9 DEF Fail, Cleanup, LeaveScreen, Return, Points
  <2>4. shown' \in Seq(Words) /\ result' \in Results \cup {NULL}
    BY <1>9 DEF Fail, Cleanup, LeaveScreen, Return, Results
  <2>5. remaining' \in 0..Timeout
    BY <1>9, Countdown DEF Fail, Cleanup, LeaveScreen, Return
  <2>6. QED
    BY <2>1, <2>2, <2>3, <2>4, <2>5
<1>10. CASE Begin("warn") \/ Begin("key")
  <2>1. raw' \in BOOLEAN /\ active' \in BOOLEAN /\ plain' \in BOOLEAN
    BY <1>10 DEF Begin, RawOn, RawOff
  <2>2. content' \in [Screens -> SUBSET Secrets] /\ screen' \in Screens
    BY <1>10 DEF Begin, Screens, Secrets, Cleared
  <2>3. pc' \in Points /\ terminal' \in Terminals /\ broken' \subseteq Capabilities
    BY <1>10 DEF Begin, Points
  <2> <<>> \in Seq(Words)
    OBVIOUS
  <2>4. shown' \in Seq(Words) /\ result' \in Results \cup {NULL}
    BY <1>10 DEF Begin, Results
  <2>5. remaining' \in 0..Timeout
    BY <1>10, Countdown DEF Begin
  <2>6. QED
    BY <2>1, <2>2, <2>3, <2>4, <2>5
<1>11. CASE AcceptWarning
  <2>1. raw' \in BOOLEAN /\ active' \in BOOLEAN /\ plain' \in BOOLEAN
    BY <1>11 DEF AcceptWarning, CloseWarning, RawOn, RawOff
  <2>2. content' \in [Screens -> SUBSET Secrets] /\ screen' \in Screens
    BY <1>11 DEF AcceptWarning, CloseWarning, Screens, Secrets, Cleared
  <2>3. pc' \in Points /\ terminal' \in Terminals /\ broken' \subseteq Capabilities
    BY <1>11 DEF AcceptWarning, CloseWarning, Points
  <2>4. shown' \in Seq(Words) /\ result' \in Results \cup {NULL}
    BY <1>11 DEF AcceptWarning, CloseWarning, Results
  <2>5. remaining' \in 0..Timeout
    BY <1>11, Countdown DEF AcceptWarning, CloseWarning
  <2>6. QED
    BY <2>1, <2>2, <2>3, <2>4, <2>5
<1>12. CASE CancelWarning
  <2>1. raw' \in BOOLEAN /\ active' \in BOOLEAN /\ plain' \in BOOLEAN
    BY <1>12 DEF CancelWarning, CloseWarning, Return, Cancelled, RawOn, RawOff
  <2>2. content' \in [Screens -> SUBSET Secrets] /\ screen' \in Screens
    BY <1>12 DEF CancelWarning, CloseWarning, Return, Cancelled, Screens, Secrets, Cleared
  <2>3. pc' \in Points /\ terminal' \in Terminals /\ broken' \subseteq Capabilities
    BY <1>12 DEF CancelWarning, CloseWarning, Return, Cancelled, Points
  <2>4. shown' \in Seq(Words) /\ result' \in Results \cup {NULL}
    BY <1>12 DEF CancelWarning, CloseWarning, Return, Cancelled, Results
  <2>5. remaining' \in 0..Timeout
    BY <1>12, Countdown DEF CancelWarning, CloseWarning, Return, Cancelled
  <2>6. QED
    BY <2>1, <2>2, <2>3, <2>4, <2>5
<1>13. CASE CancelWords
  <2>1. raw' \in BOOLEAN /\ active' \in BOOLEAN /\ plain' \in BOOLEAN
    BY <1>13 DEF CancelWords, LeaveWord, Cleanup, LeaveScreen, Return, RawOn, RawOff
  <2>2. content' \in [Screens -> SUBSET Secrets] /\ screen' \in Screens
    BY <1>13 DEF CancelWords, LeaveWord, Cleanup, LeaveScreen, Return, Screens, Secrets, Cleared
  <2>3. pc' \in Points /\ terminal' \in Terminals /\ broken' \subseteq Capabilities
    BY <1>13 DEF CancelWords, LeaveWord, Cleanup, LeaveScreen, Return, Points
  <2>4. shown' \in Seq(Words) /\ result' \in Results \cup {NULL}
    BY <1>13 DEF CancelWords, LeaveWord, Cleanup, LeaveScreen, Return, Results
  <2>5. remaining' \in 0..Timeout
    BY <1>13, Countdown DEF CancelWords, LeaveWord, Cleanup, LeaveScreen, Return
  <2>6. QED
    BY <2>1, <2>2, <2>3, <2>4, <2>5
<1>14. CASE CloseCompletion
  <2>1. raw' \in BOOLEAN /\ active' \in BOOLEAN /\ plain' \in BOOLEAN
    BY <1>14 DEF CloseCompletion, Cleanup, LeaveScreen, Return, RawOn, RawOff
  <2>2. content' \in [Screens -> SUBSET Secrets] /\ screen' \in Screens
    BY <1>14 DEF CloseCompletion, Cleanup, LeaveScreen, Return, Screens, Secrets, Cleared
  <2>3. pc' \in Points /\ terminal' \in Terminals /\ broken' \subseteq Capabilities
    BY <1>14 DEF CloseCompletion, Cleanup, LeaveScreen, Return, Points
  <2>4. shown' \in Seq(Words) /\ result' \in Results \cup {NULL}
    BY <1>14 DEF CloseCompletion, Cleanup, LeaveScreen, Return, Results
  <2>5. remaining' \in 0..Timeout
    BY <1>14, Countdown DEF CloseCompletion, Cleanup, LeaveScreen, Return
  <2>6. QED
    BY <2>1, <2>2, <2>3, <2>4, <2>5
<1>15. CASE \E capability \in Capabilities : Break(capability)
  BY <1>15, DisplayAssumption DEF Break, Points, Screens, Secrets, Words, Results, Capabilities,
     RawOn, RawOff, Cleared, Supported, Works
<1>16. CASE UNCHANGED vars
  BY <1>16, DisplayAssumption DEF vars, Points, Screens, Secrets, Words, Results, Capabilities,
     RawOn, RawOff, Cleared, Supported, Works
<1>17. QED
  BY <1>1, <1>2, <1>3, <1>4, <1>5, <1>6, <1>7, <1>8, <1>9, <1>10, <1>11, <1>12, <1>13, <1>14, <1>15, <1>16
     DEF Next, Program, User, WordTimeout, ConfirmWord, KeyTimeout, PressKey

LEMMA NothingShown ==
  ASSUME NEW s, s = <<>>
  PROVE  \A i \in DOMAIN s : s[i] = i
  OBVIOUS

LEMMA OrderInit == Init => OrderInv
  BY DEF Init, OrderInv

(* A word is appended in its place, and the last message follows the last. *)
LEMMA OrderNext ==
  TypeOK /\ OrderInv /\ [Next]_vars => OrderInv'
<1> SUFFICES ASSUME TypeOK, OrderInv, [Next]_vars PROVE OrderInv'
  OBVIOUS
<1> USE DisplayAssumption DEF tty, run, TypeOK, OrderInv, Words, Points
<1>1. CASE Warn
  BY <1>1 DEF Warn
<1>2. CASE EnterScreen
  BY <1>2 DEF EnterScreen, EnterOn
<1>3. CASE ShowWord
  BY <1>3 DEF ShowWord, ShowWordOver
<1>4. CASE ShowCompletion
  BY <1>4 DEF ShowCompletion
<1>5. CASE Tick
  BY <1>5 DEF Tick, Turn
<1>6. CASE NextWord
  BY <1>6 DEF NextWord, LeaveWord
<1>7. CASE ShowKey
  BY <1>7 DEF ShowKey
<1>8. CASE CloseKey
  BY <1>8 DEF CloseKey, Cleanup, LeaveScreen, Return
<1>9. CASE Fail
  BY <1>9 DEF Fail, Cleanup, LeaveScreen, Return
<1>10. CASE Begin("warn") \/ Begin("key")
  <2>1. shown' = <<>> /\ pc' # "completed"
    BY <1>10 DEF Begin
  <2>2. QED
    BY <2>1, NothingShown
<1>11. CASE AcceptWarning
  BY <1>11 DEF AcceptWarning, CloseWarning
<1>12. CASE CancelWarning
  BY <1>12 DEF CancelWarning, CloseWarning, Return, Cancelled
<1>13. CASE CancelWords
  BY <1>13 DEF CancelWords, LeaveWord, Cleanup, LeaveScreen, Return
<1>14. CASE CloseCompletion
  BY <1>14 DEF CloseCompletion, Cleanup, LeaveScreen, Return
<1>15. CASE \E capability \in Capabilities : Break(capability)
  BY <1>15 DEF Break
<1>16. CASE UNCHANGED vars
  BY <1>16 DEF vars
<1>17. QED
  BY <1>1, <1>2, <1>3, <1>4, <1>5, <1>6, <1>7, <1>8, <1>9, <1>10, <1>11, <1>12, <1>13, <1>14, <1>15, <1>16
     DEF Next, Program, User, WordTimeout, ConfirmWord, KeyTimeout, PressKey

LEMMA ModeInit == Init => ModeInv
  BY DEF Init, ModeInv, Showing

(* The run leaves what it entered: one step for every action.             *)
LEMMA ModeNext ==
  TypeOK /\ ModeInv /\ [Next]_vars => ModeInv'
<1> SUFFICES ASSUME TypeOK, ModeInv, [Next]_vars PROVE ModeInv'
  OBVIOUS
<1> USE DEF Works, tty, run, Capabilities, Terminals, Screens, Points,
            TypeOK, ModeInv, Showing, RawOn, RawOff, Supported
<1>1. CASE Warn
  BY <1>1 DEF Warn
<1>2. CASE EnterScreen
  BY <1>2 DEF EnterScreen, EnterOn
<1>3. CASE ShowWord
  BY <1>3 DEF ShowWord, ShowWordOver
<1>4. CASE ShowCompletion
  BY <1>4 DEF ShowCompletion
<1>5. CASE Tick
  BY <1>5 DEF Tick, Turn
<1>6. CASE NextWord
  BY <1>6 DEF NextWord, LeaveWord
<1>7. CASE ShowKey
  BY <1>7 DEF ShowKey
<1>8. CASE CloseKey
  BY <1>8 DEF CloseKey, Cleanup, LeaveScreen, Return
<1>9. CASE Fail
  <2>1. /\ UNCHANGED <<terminal, broken>> /\ active' = FALSE
        /\ pc' = "idle" /\ result' = "failed"
    BY <1>9 DEF Fail, Cleanup, LeaveScreen, Return
  <2>2. Works("mode") => ~raw'
    BY <1>9, <2>1 DEF Fail, Cleanup
  <2>3. ASSUME screen' = "alternate", Works("write"), Works("mode")
        PROVE  terminal = "full" /\ ~Works("input")
    BY <1>9, <2>3 DEF Fail, Cleanup, LeaveScreen
  <2>4. QED
    BY <2>1, <2>2, <2>3
<1>10. CASE Begin("warn") \/ Begin("key")
  <2>1. /\ UNCHANGED <<terminal, broken>> /\ UNCHANGED <<raw, screen>>
        /\ UNCHANGED <<plain, active>> /\ pc = "idle" /\ pc' \in {"warn", "key"}
    BY <1>10 DEF Begin
  <2>2. QED
    BY <2>1, ZenonT(30)
<1>11. CASE AcceptWarning
  BY <1>11 DEF AcceptWarning, CloseWarning
<1>12. CASE CancelWarning
  BY <1>12 DEF CancelWarning, CloseWarning, Return, Cancelled
<1>13. CASE CancelWords
  BY <1>13 DEF CancelWords, LeaveWord, Cleanup, LeaveScreen, Return
<1>14. CASE CloseCompletion
  BY <1>14 DEF CloseCompletion, Cleanup, LeaveScreen, Return
<1>15. CASE \E capability \in Capabilities : Break(capability)
  <2> PICK capability \in Capabilities : Break(capability)
    BY <1>15
  <2>1. /\ UNCHANGED <<terminal, pc, result>> /\ UNCHANGED <<raw, screen>>
        /\ UNCHANGED <<plain, active>> /\ broken \subseteq broken'
    BY DEF Break
  <2>2. QED
    BY <2>1, ZenonT(30)
<1>16. CASE UNCHANGED vars
  BY <1>16 DEF vars
<1>17. QED
  BY <1>1, <1>2, <1>3, <1>4, <1>5, <1>6, <1>7, <1>8, <1>9, <1>10, <1>11, <1>12, <1>13, <1>14, <1>15, <1>16
     DEF Next, Program, User, WordTimeout, ConfirmWord, KeyTimeout, PressKey

LEMMA ContentInit == Init => ContentInv /\ MainStaysClean /\ OneWordAtATime
  BY DEF Init, ContentInv, MainStaysClean, OneWordAtATime, OnScreen, Showing, Screens

(* The three are proved together: what a screen holds when it comes back   *)
(* is what was left under the other one.                                   *)
ScreensInv == ContentInv /\ MainStaysClean /\ OneWordAtATime

LEMMA KeyIsNoWord == Key \notin Words
  BY DisplayAssumption DEF Key, Words

LEMMA ContentNext ==
  TypeOK /\ OrderInv /\ ModeInv /\ ScreensInv /\ [Next]_vars => ScreensInv'
<1> SUFFICES ASSUME TypeOK, OrderInv, ModeInv, ScreensInv, [Next]_vars PROVE ScreensInv'
  OBVIOUS
<1> USE DEF Works, tty, run, Capabilities, Terminals, Screens, Points,
            TypeOK, ScreensInv, ContentInv, MainStaysClean, OneWordAtATime, ModeInv, Showing,
            OnScreen, RawOn, RawOff, Cleared, Supported, OrderInv
<1>1. CASE Warn
  BY <1>1 DEF Warn
<1>2. CASE EnterScreen
  BY <1>2 DEF EnterScreen, EnterOn
<1>3. CASE ShowWord
  BY <1>3 DEF ShowWord, ShowWordOver
<1>4. CASE ShowCompletion
  BY <1>4 DEF ShowCompletion
<1>5. CASE Tick
  BY <1>5 DEF Tick, Turn
<1>6. CASE NextWord
  BY <1>6 DEF NextWord, LeaveWord
<1>7. CASE ShowKey
  <2>1. /\ UNCHANGED <<terminal, broken, shown>> /\ pc = "key" /\ pc' = "keywait" /\ Works("write")
    BY <1>7 DEF ShowKey
  <2>2. CASE terminal # "stream" /\ Works("mode")
    <3>1. screen' = "alternate" /\ active' = TRUE /\ content' = [content EXCEPT !["alternate"] = {Key}]
      BY <1>7, <2>2 DEF ShowKey
    <3>2. content'["main"] = content["main"] /\ content'["alternate"] = {Key}
      BY <3>1
    <3>3. content["main"] \cap Words = {}
      BY <2>1, <2>2
    <3>4. QED
      BY <2>1, <2>2, <3>1, <3>2, <3>3, KeyIsNoWord
  <2>3. CASE ~(terminal # "stream" /\ Works("mode"))
    <3>1. screen' = screen /\ content' = [content EXCEPT ![screen] = @ \cup {Key}]
      BY <1>7, <2>3 DEF ShowKey
    <3>2. /\ content'[screen] = content[screen] \cup {Key}
          /\ screen = "alternate" => content'["main"] = content["main"]
      BY <3>1
    <3>3. QED
      BY <2>1, <2>3, <3>1, <3>2, KeyIsNoWord
  <2>4. QED
    BY <2>2, <2>3
<1>8. CASE CloseKey
  BY <1>8 DEF CloseKey, Cleanup, LeaveScreen, Return
<1>9. CASE Fail
  BY <1>9 DEF Fail, Cleanup, LeaveScreen, Return
<1>10. CASE Begin("warn") \/ Begin("key")
  BY <1>10 DEF Begin
<1>11. CASE AcceptWarning
  BY <1>11 DEF AcceptWarning, CloseWarning
<1>12. CASE CancelWarning
  BY <1>12 DEF CancelWarning, CloseWarning, Return, Cancelled
<1>13. CASE CancelWords
  BY <1>13 DEF CancelWords, LeaveWord, Cleanup, LeaveScreen, Return
<1>14. CASE CloseCompletion
  BY <1>14 DEF CloseCompletion, Cleanup, LeaveScreen, Return
<1>15. CASE \E capability \in Capabilities : Break(capability)
  <2> PICK capability \in Capabilities : Break(capability)
    BY <1>15
  <2>1. /\ UNCHANGED <<terminal, screen, content>> /\ UNCHANGED <<pc, plain, active, shown>>
        /\ broken \subseteq broken'
    BY DEF Break
  <2>2. QED
    BY <2>1, ZenonT(30)
<1>16. CASE UNCHANGED vars
  BY <1>16 DEF vars
<1>17. QED
  BY <1>1, <1>2, <1>3, <1>4, <1>5, <1>6, <1>7, <1>8, <1>9, <1>10, <1>11, <1>12, <1>13, <1>14, <1>15, <1>16
     DEF Next, Program, User, WordTimeout, ConfirmWord, KeyTimeout, PressKey

(* Every variable keeps its type.                                          *)
THEOREM DisplayTypes == Spec => []TypeOK
  BY TypeInit, TypeNext, PTL DEF Spec

(* Words are shown in order and "completed" comes after the last.          *)
LEMMA DisplayOrder == Spec => []OrderInv
  BY DisplayTypes, OrderInit, OrderNext, PTL DEF Spec

LEMMA DisplayMode == Spec => []ModeInv
  BY DisplayTypes, ModeInit, ModeNext, PTL DEF Spec

(* The terminal comes back as it was, but for a warning that lost its      *)
(* input.                                                                  *)
THEOREM DisplayRestores == Spec => []TerminalRestored
<1>1. ModeInv => TerminalRestored
  BY DEF ModeInv, TerminalRestored, Showing
<1>2. QED
  BY <1>1, DisplayMode, PTL

LEMMA DisplayScreens == Spec => []ScreensInv
<1>1. Init => ScreensInv
  BY ContentInit DEF ScreensInv
<1>2. QED
  BY <1>1, DisplayTypes, DisplayOrder, DisplayMode, ContentNext, PTL DEF Spec

(* At most the word the run has come to can be read, and none outside of   *)
(* a run.                                                                  *)
THEOREM DisplayOneWord == Spec => []OneWordAtATime
<1>1. ScreensInv => OneWordAtATime
  BY DEF ScreensInv
<1>2. QED
  BY <1>1, DisplayScreens, PTL

(* No secret reaches the main screen of a terminal with an alternate one.  *)
THEOREM DisplayMainClean == Spec => []MainStaysClean
<1>1. ScreensInv => MainStaysClean
  BY DEF ScreensInv
<1>2. QED
  BY <1>1, DisplayScreens, PTL
-----------------------------------------------------------------------------
(* The ticks of some words.                                                *)
LEMMA Ticks ==
  \A n \in Nat :
    /\ n * (Timeout + 4) \in Nat
    /\ n <= WordCount => n * (Timeout + 4) <= WordCount * (Timeout + 4)
    /\ n > 0 => n * (Timeout + 4) = (n - 1) * (Timeout + 4) + Timeout + 4
<1> TAKE n \in Nat
<1>1. Timeout \in Nat /\ WordCount \in Nat /\ n * (Timeout + 4) \in Nat
  BY DisplayAssumption
<1>2. ASSUME n <= WordCount PROVE n * (Timeout + 4) <= WordCount * (Timeout + 4)
  <2>1. WordCount - n \in Nat /\ WordCount = n + (WordCount - n)
    BY <1>1, <1>2
  <2>2. WordCount * (Timeout + 4) = n * (Timeout + 4) + (WordCount - n) * (Timeout + 4)
        /\ (WordCount - n) * (Timeout + 4) \in Nat
    BY <1>1, <2>1
  <2>3. QED
    BY <1>1, <2>2
<1>3. ASSUME n > 0 PROVE n * (Timeout + 4) = (n - 1) * (Timeout + 4) + Timeout + 4
  BY <1>1, <1>3
<1>4. QED
  BY <1>1, <1>2, <1>3

LEMMA AheadAt ==
  /\ pc = "idle" => Ahead = 0
  /\ pc = "completed" => Ahead = 1
  /\ pc = "word" => Ahead = WordsAhead + 2
  /\ pc = "wait" => Ahead = WordsAhead + remaining + 3
  /\ pc = "enter" => Ahead = WordCount * (Timeout + 4) + 3
  /\ pc = "warned" => Ahead = WordCount * (Timeout + 4) + 4
  /\ pc = "warn" => Ahead = WordCount * (Timeout + 4) + 5
  /\ pc = "keywait" => Ahead = remaining + 1
  /\ pc = "key" => Ahead = Timeout + 2
<1>1. pc = "idle" => Ahead = 0
  BY DEF Ahead
<1>2. pc = "completed" => Ahead = 1
  BY DEF Ahead
<1>3. pc = "word" => Ahead = WordsAhead + 2
  BY DEF Ahead
<1>4. pc = "wait" => Ahead = WordsAhead + remaining + 3
  BY DEF Ahead
<1>5. pc = "enter" => Ahead = WordCount * (Timeout + 4) + 3
  BY DEF Ahead
<1>6. pc = "warned" => Ahead = WordCount * (Timeout + 4) + 4
  BY DEF Ahead
<1>7. pc = "warn" => Ahead = WordCount * (Timeout + 4) + 5
  BY DEF Ahead
<1>8. pc = "keywait" => Ahead = remaining + 1
  BY DEF Ahead
<1>9. pc = "key" => Ahead = Timeout + 2
  BY DEF Ahead
<1>10. QED
  BY <1>1, <1>2, <1>3, <1>4, <1>5, <1>6, <1>7, <1>8, <1>9

(* No more words are shown than there are, so what is ahead is a number.   *)
LEMMA AheadIsNumber ==
  ASSUME TypeOK, OrderInv
  PROVE  /\ WordCount - Len(shown) \in 0..WordCount
         /\ WordsAhead \in Nat /\ WordsAhead <= WordCount * (Timeout + 4)
         /\ Ahead \in Nat /\ (pc # "idle" => Ahead > 0)
<1>1. Len(shown) \in Nat /\ WordCount \in Nat /\ Timeout \in Nat /\ remaining \in Nat
  BY DisplayAssumption DEF TypeOK
<1>2. Len(shown) <= WordCount
  <2>1. ASSUME Len(shown) > 0 PROVE Len(shown) <= WordCount
    <3>1. Len(shown) \in DOMAIN shown
      BY <1>1, <2>1 DEF TypeOK
    <3>2. shown[Len(shown)] \in Words /\ shown[Len(shown)] = Len(shown)
      BY <3>1 DEF TypeOK, OrderInv
    <3>3. QED
      BY <3>2 DEF Words
  <2>2. QED
    BY <1>1, <2>1
<1>3. WordCount - Len(shown) \in 0..WordCount
  BY <1>1, <1>2
<1>4. WordsAhead \in Nat /\ WordsAhead <= WordCount * (Timeout + 4)
  BY <1>3, Ticks DEF WordsAhead
<1>5. Ahead \in Nat /\ (pc # "idle" => Ahead > 0)
  <2>1. pc \in Points
    BY DEF TypeOK
  <2>2. WordCount * (Timeout + 4) \in Nat
    BY <1>1, Ticks
  <2> DEFINE All == WordCount * (Timeout + 4)
  <2>3. All \in Nat /\ (pc = "enter" => Ahead = All + 3) /\ (pc = "warned" => Ahead = All + 4)
        /\ (pc = "warn" => Ahead = All + 5)
    BY <2>2, AheadAt
  <2>4. WordsAhead \in Nat
    BY <1>4
  <2> HIDE DEF All
  <2>5. CASE pc \in {"enter", "warned", "warn"}
    BY <2>3, <2>5
  <2>6. CASE pc \in {"idle", "completed", "word", "wait", "keywait", "key"}
    BY <1>1, <2>4, <2>6, AheadAt
  <2>7. QED
    BY <2>1, <2>5, <2>6 DEF Points
<1>6. QED
  BY <1>3, <1>4, <1>5

LEMMA GoesOn ==
  ASSUME TypeOK, OrderInv, [Next]_vars, pc # "idle", ~UNCHANGED run
  PROVE  Ahead' < Ahead
<1> DEFINE All == WordCount * (Timeout + 4)
<1>0. All \in Nat /\ WordsAhead <= All
  <2>1. WordCount \in Nat
    BY DisplayAssumption
  <2>2. QED
    BY <2>1, Ticks, AheadIsNumber
<1> HIDE DEF All
<1>1. Len(shown) \in Nat /\ WordCount \in Nat /\ Timeout \in Nat /\ remaining \in 0..Timeout
  BY DisplayAssumption DEF TypeOK
<1>2. WordsAhead \in Nat /\ Ahead > 0 /\ WordCount - Len(shown) \in 0..WordCount
  BY AheadIsNumber
<1>3. ASSUME pc' = "idle" PROVE Ahead' < Ahead
  BY <1>2, <1>3 DEF Ahead
<1>4. ASSUME shown' = shown PROVE WordsAhead' = WordsAhead
  BY <1>4 DEF WordsAhead
<1>5. CASE Warn
  <2>1. pc = "warn" /\ pc' = "warned"
    BY <1>5 DEF Warn
  <2>2. Ahead = All + 5 /\ Ahead' = All + 4
    BY <2>1, AheadAt DEF Ahead, All
  <2>3. QED
    BY <1>0, <2>2
<1>6. CASE AcceptWarning
  <2>1. pc = "warned" /\ pc' = "enter"
    BY <1>6 DEF AcceptWarning, CloseWarning
  <2>2. Ahead = All + 4 /\ Ahead' = All + 3
    BY <2>1, AheadAt DEF Ahead, All
  <2>3. QED
    BY <1>0, <2>2
<1>7. CASE EnterScreen
  <2>1. pc = "enter" /\ pc' = "word" /\ shown' = shown
    BY <1>7 DEF EnterScreen, EnterOn
  <2>2. Ahead = All + 3 /\ Ahead' = WordsAhead + 2
    BY <1>4, <2>1, AheadAt DEF Ahead, All
  <2>3. QED
    BY <1>0, <1>2, <2>2
<1>8. CASE ShowWord
  <2>1. pc = "word" /\ pc' = "wait" /\ remaining' = Timeout
        /\ shown' = Append(shown, Len(shown) + 1) /\ Len(shown) < WordCount
    BY <1>8 DEF ShowWord, ShowWordOver
  <2>2. Len(shown') = Len(shown) + 1
    BY <2>1 DEF TypeOK
  <2>3. WordCount - Len(shown) \in Nat /\ WordCount - Len(shown) > 0
        /\ WordCount - Len(shown') = (WordCount - Len(shown)) - 1
    BY <1>1, <2>1, <2>2
  <2>4. WordsAhead' \in Nat /\ WordsAhead = WordsAhead' + Timeout + 4
    <3>1. WordsAhead' = (WordCount - Len(shown')) * (Timeout + 4)
      BY DEF WordsAhead
    <3>2. WordCount - Len(shown') \in Nat
      BY <2>3
    <3>3. QED
      BY <2>3, <3>1, <3>2, Ticks DEF WordsAhead
  <2>5. Ahead = WordsAhead + 2
    BY <2>1, AheadAt
  <2>6. Ahead' = WordsAhead' + remaining' + 3
    BY <2>1 DEF Ahead
  <2>7. remaining' = Timeout /\ Timeout \in Nat
    BY <1>1, <2>1
  <2>8. PICK w \in Nat : w = WordsAhead'
    BY <2>4
  <2>9. Ahead' = w + Timeout + 3
    BY <2>6, <2>7, <2>8
  <2>10. Ahead = w + Timeout + 6
    BY <2>4, <2>5, <2>7, <2>8
  <2>11. QED
    BY <2>7, <2>9, <2>10
<1>9. CASE ShowCompletion
  <2>1. pc = "word" /\ pc' = "completed"
    BY <1>9 DEF ShowCompletion
  <2>2. Ahead = WordsAhead + 2 /\ Ahead' = 1
    BY <2>1, AheadAt DEF Ahead
  <2>3. QED
    BY <1>2, <2>2
<1>10. CASE Tick
  <2>1. pc \in {"wait", "keywait"} /\ pc' = pc /\ shown' = shown /\ remaining' = remaining - 1
    BY <1>10 DEF Tick, Turn
  <2>2. CASE pc = "wait"
    <3>1. Ahead = WordsAhead + remaining + 3
      BY <2>2, AheadAt
    <3>2. Ahead' = WordsAhead + remaining' + 3
      BY <1>4, <2>1, <2>2 DEF Ahead
    <3>3. remaining \in Nat /\ remaining' = remaining - 1 /\ WordsAhead \in Nat
      BY <1>1, <1>2, <2>1
    <3>4. QED
      BY <3>1, <3>2, <3>3
  <2>3. CASE pc = "keywait"
    <3>1. Ahead = remaining + 1
      BY <2>3, AheadAt
    <3>2. Ahead' = remaining' + 1
      BY <2>1, <2>3 DEF Ahead
    <3>3. remaining \in Nat /\ remaining' = remaining - 1
      BY <1>1, <2>1
    <3>4. QED
      BY <3>1, <3>2, <3>3
  <2>4. QED
    BY <2>1, <2>2, <2>3
<1>11. CASE NextWord
  <2>1. pc = "wait" /\ pc' = "word" /\ shown' = shown
    BY <1>11 DEF NextWord, LeaveWord
  <2>2. Ahead = WordsAhead + remaining + 3 /\ Ahead' = WordsAhead + 2
    BY <1>4, <2>1, AheadAt DEF Ahead
  <2>3. QED
    BY <1>1, <1>2, <2>2
<1>12. CASE ShowKey
  <2>1. pc = "key" /\ pc' = "keywait" /\ remaining' = Timeout
    BY <1>12 DEF ShowKey
  <2>2. Ahead = Timeout + 2
    BY <2>1, AheadAt
  <2>3. Ahead' = remaining' + 1
    BY <2>1 DEF Ahead
  <2>4. QED
    BY <1>1, <2>1, <2>2, <2>3
<1>13. CASE Fail \/ CancelWarning \/ CancelWords \/ CloseCompletion \/ CloseKey
  <2>1. pc' = "idle"
    BY <1>13 DEF Fail, CancelWarning, CancelWords, CloseCompletion, CloseKey, Return
  <2>2. QED
    BY <1>3, <2>1
<1>14. CASE Begin("warn") \/ Begin("key")
  BY <1>14 DEF Begin
<1>15. CASE \E capability \in Capabilities : Break(capability)
  BY <1>15 DEF Break
<1>16. CASE UNCHANGED vars
  BY <1>16 DEF vars
<1>17. QED
  BY <1>5, <1>6, <1>7, <1>8, <1>9, <1>10, <1>11, <1>12, <1>13, <1>14, <1>15, <1>16
     DEF Next, Program, User, WordTimeout, ConfirmWord, KeyTimeout, PressKey

(* A run has a bounded number of steps before it, for every mnemonic and   *)
(* timeout, and none of them is ever undone: no key, failure or earlier    *)
(* run makes it show a word again or count from the start.                 *)
THEOREM DisplayGoesOn == Spec => RunsGoOn
<1>1. TypeOK /\ OrderInv /\ [Next]_vars => [pc # "idle" => Ahead' < Ahead]_run
  BY GoesOn
<1>2. QED
  BY <1>1, DisplayTypes, DisplayOrder, PTL DEF Spec, RunsGoOn
=============================================================================
