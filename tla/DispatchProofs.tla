--------------------------- MODULE DispatchProofs ---------------------------
(* Proofs about Dispatch, for any words, aliases, extensions and bounds. *)
EXTENDS AliasInput, SequenceTheorems, WellFoundedInduction, NaturalsInduction, TLAPS

-----------------------------------------------------------------------------
(* The end of a command line. *)

\* The arguments of a command line end with themselves.
LEMMA EndsItself ==
  ASSUME NEW W, NEW s \in Seq(W)
  PROVE  Ends(s, s)
BY DEF Ends

\* What the rest of a sequence ends with, the sequence ends with.
LEMMA EndsTail ==
  ASSUME NEW W, NEW s \in Seq(W), s # <<>>, NEW t \in Seq(W), Ends(Tail(s), t)
  PROVE  Ends(s, t)
<1>1. Tail(s) \in Seq(W) /\ Len(Tail(s)) = Len(s) - 1
  OBVIOUS
<1>2. \A j \in 1..Len(Tail(s)) : Tail(s)[j] = s[j + 1]
  OBVIOUS
<1>3. Len(s) >= Len(t)
  BY <1>1 DEF Ends
<1>4. ASSUME NEW i \in 1..Len(t) PROVE s[Len(s) - Len(t) + i] = t[i]
  <2>1. Tail(s)[Len(Tail(s)) - Len(t) + i] = t[i]
    BY DEF Ends
  <2>2. Len(Tail(s)) - Len(t) + i \in 1..Len(Tail(s))
    BY <1>1 DEF Ends
  <2> QED BY <1>1, <1>2, <2>1, <2>2
<1> QED BY <1>3, <1>4 DEF Ends

\* An expansion in front leaves the end of the rest alone.
LEMMA EndsBehind ==
  ASSUME NEW W, NEW x \in Seq(W), x # <<>>, NEW s \in Seq(W), NEW t \in Seq(W),
         Ends(s, t)
  PROVE  Ends(Tail(x \o s), t)
<1> DEFINE y == x \o s
<1>1. y \in Seq(W) /\ Len(y) = Len(x) + Len(s) /\ Len(x) >= 1 /\ y # <<>>
  OBVIOUS
<1>2. Tail(y) \in Seq(W) /\ Len(Tail(y)) = Len(y) - 1
  BY <1>1
<1>3. \A j \in 1..Len(Tail(y)) : Tail(y)[j] = y[j + 1]
  BY <1>1
<1>4. \A j \in 1..Len(s) : y[Len(x) + j] = s[j]
  OBVIOUS
<1>5. ASSUME NEW i \in 1..Len(t)
      PROVE  Tail(y)[Len(Tail(y)) - Len(t) + i] = t[i]
  <2> DEFINE k == Len(s) - Len(t) + i
  <2>1. k \in 1..Len(s) /\ s[k] = t[i]
    BY DEF Ends
  <2>2. Len(Tail(y)) - Len(t) + i = Len(x) + k - 1
    BY <1>1, <1>2
  <2>3. Len(x) + k - 1 \in 1..Len(Tail(y))
    BY <1>1, <1>2, <2>1
  <2>4. Tail(y)[Len(x) + k - 1] = y[Len(x) + k]
    <3> HIDE DEF y, k
    <3> QED BY <1>1, <1>3, <2>1, <2>3
  <2>5. y[Len(x) + k] = s[k]
    <3> HIDE DEF y, k
    <3> QED BY <1>4, <2>1
  <2> QED
    <3> HIDE DEF y, k
    <3> QED BY <2>1, <2>2, <2>4, <2>5
<1>6. Len(Tail(y)) >= Len(t)
  BY <1>1, <1>2 DEF Ends
<1> QED
  <2> HIDE DEF y
  <2>1. Ends(Tail(y), t)
    BY <1>5, <1>6 DEF Ends
  <2> QED BY <2>1 DEF y

-----------------------------------------------------------------------------
(* Types. *)

USE DispatchAssumption

LEMMA InitTypes == Init => TypeOK
BY SMTT(30) DEF Init, TypeOK, Alias, Ending

\* Leaving with any code there is.
LEMMA ExitTypes ==
  ASSUME TypeOK, NEW n \in 0..255, NEW v \in Seq({"cli", "child"}), Exit(n, v)
  PROVE  pc' = "exit" /\ code' \in 0..255 /\ voices' \in Seq({"cli", "child"})
<1>1. voices \in Seq({"cli", "child"})
  BY DEF TypeOK
<1> QED BY <1>1 DEF Exit

LEMMA ExitCodes ==
  ASSUME NEW c
  PROVE  ExitCode(c) \in 1..9
BY DEF ExitCode

LEMMA ReportTypes ==
  ASSUME TypeOK, NEW c, Report(c)
  PROVE  pc' = "exit" /\ code' \in 0..255 /\ voices' \in Seq({"cli", "child"})
<1>1. ExitCode(c) \in 0..255
  BY ExitCodes
<1>2. <<"cli">> \in Seq({"cli", "child"})
  OBVIOUS
<1> QED BY <1>1, <1>2, ExitTypes DEF Report

LEMMA VoiceTypes ==
  /\ <<>> \in Seq({"cli", "child"}) /\ <<"cli">> \in Seq({"cli", "child"})
  /\ ChildVoices \in Seq({"cli", "child"})
  /\ SignalCode \in 0..255 /\ 0 \in 0..255 /\ 1 \in 0..255
BY DEF ChildVoices, SignalCode

\* Every step keeps the types.
LEMMA NextTypes ==
  ASSUME TypeOK, [Next]_vars
  PROVE  TypeOK'
<1> USE DEF TypeOK
<1>0. CASE UNCHANGED vars
  BY <1>0 DEF vars, disk, front, back
<1>1. CASE Outside
  <2>1. aliases' \in [AliasName -> Alias] /\ hand' \subseteq AliasName
    BY <1>1 DEF Outside, Store, AliasSet, AliasDelete, HandEdit, PathChange, Accepted, Alias
  <2>2. path' \subseteq Name /\ off' \subseteq Name
    BY <1>1 DEF Outside, Store, AliasSet, AliasDelete, HandEdit, PathChange
  <2>3. changes' \in 0..MaxChanges
    BY <1>1 DEF Outside
  <2> QED BY <1>1, <2>1, <2>2, <2>3 DEF Outside, front, back
<1>2. CASE Load
  <2>1. cfg' \in [AliasName -> Alias]
    BY <1>2 DEF Load, Alias
  <2> QED BY <1>2, <2>1 DEF Load, disk, back
<1>3. CASE Replace
  <2>1. Head(args) \in AliasName /\ cfg[Head(args)] \in Expansion /\ depth' \in 0..MaxDepth
    BY <1>3 DEF Replace, Replaceable, Alias
  <2>2. args # <<>> /\ Tail(args) \in Seq(Word) /\ cfg[Head(args)] \in Seq(Word)
    BY <1>3, <2>1 DEF Replace, Replaceable
  <2>3. args' \in Seq(Word)
    BY <1>3, <2>2 DEF Replace, Expanded
  <2> QED BY <1>3, <2>1, <2>3 DEF Replace, disk, back
<1>4. CASE Malformed
  <2>1. pc' = "exit" /\ code' \in 0..255 /\ voices' \in Seq({"cli", "child"})
    <3>1. Exit(1, <<"cli">>)
      BY <1>4 DEF Malformed
    <3> QED BY <3>1, ExitTypes, VoiceTypes
  <2> QED BY <1>4, <2>1 DEF Malformed, disk, front
<1>5. CASE Settle
  BY <1>5 DEF Settle, disk, front, back
<1>6. CASE Help
  <2>1. pc' = "exit" /\ code' \in 0..255 /\ voices' \in Seq({"cli", "child"})
    <3>1. Exit(0, <<>>)
      BY <1>6 DEF Help
    <3> QED BY <3>1, ExitTypes, VoiceTypes
  <2> QED BY <1>6, <2>1 DEF Help, disk, front
<1>7. CASE Command
  <2>1. pc' = "exit" /\ code' \in 0..255 /\ voices' \in Seq({"cli", "child"})
    <3>1. Exit(0, <<>>) \/ \E c \in Category : Report(c)
      BY <1>7 DEF Command
    <3> QED BY <3>1, ExitTypes, ReportTypes, VoiceTypes
  <2> QED BY <1>7, <2>1 DEF Command, disk, front
<1>8. CASE ExecCommand
  <2>1. PICK i \in 1..Len(args) :
          LET rest == SubSeq(args, 1, i - 1) \o SubSeq(args, i + 1, Len(args))
          IN IF rest # <<>>
             THEN pc' = "extension" /\ target' = rest /\ UNCHANGED <<code, voices>>
             ELSE Report("error") /\ UNCHANGED target
    BY <1>8 DEF ExecCommand
  <2>2. SubSeq(args, 1, i - 1) \in Seq(Word) /\ SubSeq(args, i + 1, Len(args)) \in Seq(Word)
    OBVIOUS
  <2>3. SubSeq(args, 1, i - 1) \o SubSeq(args, i + 1, Len(args)) \in Seq(Word)
    BY <2>2
  <2>4. /\ pc' \in {"extension", "exit"} /\ target' \in Seq(Word)
        /\ code' \in 0..255 /\ voices' \in Seq({"cli", "child"})
    BY <2>1, <2>3, ReportTypes
  <2> QED BY <1>8, <2>4 DEF ExecCommand, disk, front
<1>9. CASE Fallback
  <2>1. /\ pc' \in {"extension", "exit"} /\ target' \in Seq(Word)
        /\ code' \in 0..255 /\ voices' \in Seq({"cli", "child"})
    BY <1>9, ReportTypes DEF Fallback
  <2> QED BY <1>9, <2>1 DEF Fallback, disk, front
<1>10. CASE RunExtension
  <2>1. /\ pc' = "exit" /\ child' \in Ending \cup {-1}
        /\ code' \in 0..255 /\ voices' \in Seq({"cli", "child"})
    <3>1. CASE target[1] = Blank \/ target[1] \notin path
      BY <1>10, <3>1, ReportTypes DEF RunExtension
    <3>2. CASE ~(target[1] = Blank \/ target[1] \notin path)
      <4>1. PICK e \in Ending :
              /\ child' = e
              /\ CASE e = 0 -> Exit(0, <<>>)
                   [] e \in Status -> Exit(e, ChildVoices)
                   [] e = 256 -> Exit(SignalCode, ChildVoices)
                   [] OTHER -> Report("error")
        BY <1>10, <3>2 DEF RunExtension
      <4>2. \/ Exit(0, <<>>)
            \/ Exit(e, ChildVoices) /\ e \in 0..255
            \/ Exit(SignalCode, ChildVoices)
            \/ Report("error")
        <5>1. CASE e = 0
          BY <4>1, <5>1
        <5>2. CASE e \in Status
          <6>1. e # 0 /\ e # 256 /\ e \in 0..255
            BY <5>2
          <6>2. Exit(e, ChildVoices)
            BY <4>1, <5>2, <6>1
          <6> QED BY <6>1, <6>2
        <5>3. CASE e = 256
          BY <4>1, <5>3
        <5>4. CASE e # 0 /\ e \notin Status /\ e # 256
          BY <4>1, <5>4
        <5> QED BY <5>1, <5>2, <5>3, <5>4
      <4>3. pc' = "exit" /\ code' \in 0..255 /\ voices' \in Seq({"cli", "child"})
        BY <4>2, ExitTypes, ReportTypes, VoiceTypes
      <4> QED BY <4>1, <4>3
    <3> QED BY <3>1, <3>2
  <2> QED BY <1>10, <2>1 DEF RunExtension, disk, front
<1> QED BY <1>0, <1>1, <1>2, <1>3, <1>4, <1>5, <1>6, <1>7, <1>8, <1>9, <1>10 DEF Next

\* The variables of a run have the types the code gives them: the depth of the
\* expansion stays within aliasMaxDepth and the exit code is one a process can have.
THEOREM TypeCorrect == Spec => []TypeOK
BY InitTypes, NextTypes, PTL DEF Spec

-----------------------------------------------------------------------------
(* Broken aliases. *)

\* Whoever finds an alias broken finds one that was written by hand.
HandInv ==
  /\ \A n \in AliasName : aliases[n] = Broken => n \in hand
  /\ \A n \in AliasName : cfg[n] = Broken => n \in hand

LEMMA InitHand == Init => HandInv
BY SMTT(30) DEF Init, HandInv

LEMMA NextHand ==
  ASSUME TypeOK, HandInv, [Next]_vars
  PROVE  HandInv'
<1> USE DEF HandInv, TypeOK
<1>1. CASE Outside
  <2>1. hand \subseteq hand' /\ cfg' = cfg
    BY <1>1 DEF Outside, AliasDelete, AliasSet, HandEdit, PathChange, front
  <2>2. ASSUME NEW n \in AliasName, aliases'[n] = Broken, aliases[n] # Broken
        PROVE  n \in hand'
    <3>1. CASE \E w \in Name : PathChange(w)
      BY <2>2, <3>1 DEF PathChange
    <3>2. ASSUME NEW k \in AliasName,
                 AliasDelete(k) \/ \E a \in Alias : AliasSet(k, a)
          PROVE  FALSE
      BY <2>2, <3>2 DEF AliasDelete, AliasSet, Accepted, Store
    <3>3. ASSUME NEW k \in AliasName, NEW a \in Alias, HandEdit(k, a)
          PROVE  n \in hand'
      BY <2>2, <3>3 DEF HandEdit, Store
    <3> QED BY <1>1, <3>1, <3>2, <3>3 DEF Outside
  <2> QED BY <2>1, <2>2
<1>2. CASE Load
  BY <1>2 DEF Load, disk
<1>3. CASE UNCHANGED <<aliases, hand, cfg>>
  BY <1>3
<1>4. CASE /\ [Next]_vars /\ ~Outside /\ ~Load
  BY <1>3, <1>4 DEF Next, vars, disk, front, back, Replace, Malformed, Settle, Help, Command,
     ExecCommand, Fallback, RunExtension
<1> QED BY <1>1, <1>2, <1>4

\* A run fails on an alias only if someone has written that alias into the file by
\* hand (alias.go 57-61, 169-199).
THEOREM OnlyHandEditsBreak == Spec => BrokenNeedsHand
<1>1. TypeOK /\ HandInv => (Malformed => Head(args) \in hand)
  BY DEF HandInv, Malformed, Replaceable
<1>2. TypeOK /\ HandInv /\ [Next]_vars => [Malformed => Head(args) \in hand]_vars
  BY <1>1
<1> QED BY <1>2, InitTypes, NextTypes, InitHand, NextHand, PTL DEF Spec, BrokenNeedsHand

-----------------------------------------------------------------------------
(* Reports and exit codes. *)

\* Nothing is reported, and no child has run, before the run ends.
VoiceInv ==
  /\ pc # "exit" => voices = <<>> /\ child = -1
  /\ OneVoice

LEMMA InitVoice == Init => VoiceInv
BY DEF Init, VoiceInv, OneVoice

\* A failure of the CLI itself.
LEMMA ReportVoice ==
  ASSUME TypeOK, VoiceInv, pc # "exit", NEW c, Report(c), child' \in {-1, 257}
  PROVE  VoiceInv'
<1>1. code' \in 1..9 /\ voices' = <<"cli">> /\ pc' = "exit"
  BY ExitCodes DEF Report, Exit, VoiceInv
<1>2. child' \notin Status /\ child' \notin Status \cup {256}
  OBVIOUS
<1> QED BY <1>1, <1>2 DEF VoiceInv, OneVoice

\* A run that ends well.
LEMMA SilentVoice ==
  ASSUME TypeOK, VoiceInv, pc # "exit", Exit(0, <<>>), child' \in {-1, 0}
  PROVE  VoiceInv'
<1>1. code' = 0 /\ voices' = <<>> /\ pc' = "exit"
  BY DEF Exit, VoiceInv
<1>2. child' \notin Status /\ child' \notin Status \cup {256}
  OBVIOUS
<1> QED BY <1>1, <1>2 DEF VoiceInv, OneVoice

LEMMA NextVoice ==
  ASSUME TypeOK, VoiceInv, [Next]_vars
  PROVE  VoiceInv'
<1>1. CASE UNCHANGED <<pc, child, code, voices>>
  BY <1>1 DEF VoiceInv, OneVoice
<1>2. CASE UNCHANGED vars \/ Outside
  BY <1>1, <1>2 DEF vars, back, Outside
<1>3. CASE Load \/ Replace \/ Settle
  BY <1>3 DEF Load, Replace, Settle, back, VoiceInv, OneVoice
<1>4. CASE Malformed
  <2>1. code' = 1 /\ voices' = <<"cli">> /\ pc' = "exit" /\ child' = -1
    BY <1>4 DEF Malformed, Exit, VoiceInv
  <2> QED BY <2>1 DEF VoiceInv, OneVoice
<1>5. CASE Help
  <2>1. pc # "exit" /\ Exit(0, <<>>) /\ child' \in {-1, 0}
    BY <1>5 DEF Help, VoiceInv
  <2> QED BY <2>1, SilentVoice
<1>6. CASE Command
  <2>1. pc # "exit" /\ child' \in {-1}
    BY <1>6 DEF Command, VoiceInv
  <2>2. Exit(0, <<>>) \/ \E c \in Category : Report(c)
    BY <1>6 DEF Command
  <2> QED BY <2>1, <2>2, SilentVoice, ReportVoice
<1>7. CASE ExecCommand \/ Fallback
  <2>1. pc = "execute" /\ child' = child
    BY <1>7 DEF ExecCommand, Fallback
  <2>2. (pc' = "extension" /\ UNCHANGED <<code, voices>>) \/ Report("error")
    BY <1>7 DEF ExecCommand, Fallback
  <2>3. CASE pc' = "extension" /\ UNCHANGED <<code, voices>>
    BY <2>1, <2>3 DEF VoiceInv, OneVoice
  <2> QED BY <2>1, <2>2, <2>3, ReportVoice DEF VoiceInv
<1>8. CASE RunExtension
  <2>1. pc # "exit" /\ child = -1
    BY <1>8 DEF RunExtension, VoiceInv
  <2>2. CASE (Report("invalid_input") \/ Report("not_found_or_not_visible")) /\ UNCHANGED child
    BY <2>1, <2>2, ReportVoice
  <2>3. ASSUME NEW e \in Ending, child' = e,
               CASE e = 0 -> Exit(0, <<>>)
                 [] e \in Status -> Exit(e, ChildVoices)
                 [] e = 256 -> Exit(SignalCode, ChildVoices)
                 [] OTHER -> Report("error")
        PROVE  VoiceInv'
    <3>1. CASE e = 0
      <4>1. e \notin Status /\ e # 256
        BY <3>1
      <4> HIDE DispatchAssumption
      <4>2. Exit(0, <<>>)
        BY <2>3, <3>1, <4>1
      <4> QED BY <2>1, <2>3, <3>1, <4>2, SilentVoice
    <3>2. CASE e \in Status
      <4>1. e # 0 /\ e # 256 /\ e \in 1..255
        BY <3>2
      <4>2. Exit(e, ChildVoices)
        BY <2>3, <3>2, <4>1
      <4>3. code' = e /\ voices' = <<"child">> /\ pc' = "exit"
        BY <2>1, <4>2 DEF Exit, ChildVoices, VoiceInv
      <4> QED BY <2>3, <3>2, <4>1, <4>3 DEF VoiceInv, OneVoice
    <3>3. CASE e = 256
      <4>1. e # 0 /\ e \notin Status
        BY <3>3
      <4> HIDE DispatchAssumption
      <4>2. Exit(SignalCode, ChildVoices)
        BY <2>3, <3>3, <4>1
      <4>3. code' = 1 /\ voices' = <<"child">> /\ pc' = "exit"
        BY <2>1, <4>2 DEF Exit, ChildVoices, SignalCode, VoiceInv
      <4> QED BY <2>3, <3>3, <4>1, <4>3 DEF VoiceInv, OneVoice
    <3>4. CASE e # 0 /\ e \notin Status /\ e # 256
      <4>1. Report("error") /\ e = 257
        BY <2>3, <3>4 DEF Ending
      <4> QED BY <2>1, <2>3, <4>1, ReportVoice
    <3> QED BY <3>1, <3>2, <3>3, <3>4
  <2> QED BY <1>8, <2>2, <2>3 DEF RunExtension
<1> QED BY <1>2, <1>3, <1>4, <1>5, <1>6, <1>7, <1>8 DEF Next

\* Every failure has one report and a code that is its own (root.go 181-215,
\* extension.go 122-137).
THEOREM OneReport == Spec => []OneVoice
<1>1. VoiceInv => OneVoice
  BY DEF VoiceInv
<1> QED BY <1>1, InitTypes, NextTypes, InitVoice, NextVoice, PTL DEF Spec

-----------------------------------------------------------------------------
(* Extensions that are there are run. *)

\* The leading word is that of an extension and of nothing else.
Plain == args # <<>> /\ Head(args) \in Name \ (Builtin \cup off) /\ ~Replaceable

MissInv ==
  /\ Name \ path \subseteq off
  /\ pc = "extension" /\ Plain => target = args
  /\ pc = "exit" /\ Plain => child # -1

LEMMA InitMiss == Init => MissInv
BY DEF Init, MissInv

\* cobra knows no such command.
LEMMA PlainUnknown ==
  ASSUME TypeOK, Plain
  PROVE  1 \in 1..Len(args) /\ args[1] = Head(args) /\ args[1] # Flag /\ UnknownAt(1)
<1>1. 1 \in 1..Len(args) /\ args[1] = Head(args)
  BY DEF Plain, TypeOK
<1>2. args[1] # Flag /\ args[1] \notin Builtin
  BY <1>1 DEF Plain
<1> QED BY <1>1, <1>2 DEF UnknownAt, NameAt

LEMMA NextMiss ==
  ASSUME TypeOK, MissInv, [Next]_vars
  PROVE  MissInv'
<1>1. CASE UNCHANGED vars
  BY <1>1 DEF vars, disk, front, back, MissInv, Plain, Replaceable
<1>2. CASE Outside
  <2>1. (Name \ path \subseteq off)' /\ off \subseteq off'
    BY <1>2 DEF Outside, AliasDelete, AliasSet, HandEdit, PathChange, Store, MissInv, TypeOK
  <2>2. Plain' => Plain
    BY <1>2, <2>1 DEF Outside, front, Plain, Replaceable
  <2> QED BY <1>2, <2>1, <2>2 DEF Outside, front, back, MissInv
<1>3. CASE Load \/ Replace \/ Settle
  BY <1>3 DEF Load, Replace, Settle, disk, back, MissInv
<1>4. ASSUME UNCHANGED <<disk, front>>
      PROVE  (Plain' <=> Plain) /\ (Name \ path \subseteq off)' /\ args' = args
  BY <1>4 DEF disk, front, Plain, Replaceable, MissInv
<1>5. CASE Malformed
  <2>1. Replaceable /\ pc' = "exit"
    BY <1>5 DEF Malformed, Exit
  <2> QED BY <1>4, <1>5, <2>1 DEF Malformed, Plain, MissInv
<1>6. CASE Help
  <2>1. pc' = "exit" /\ ~Plain
    BY <1>6, PlainUnknown DEF Help, Exit
  <2> QED BY <1>4, <1>6, <2>1 DEF Help, MissInv
<1>7. CASE Command
  <2>1. pc' = "exit"
    BY <1>7 DEF Command, Report, Exit
  <2>2. ~Plain
    BY <1>7, PlainUnknown DEF Command, Runs, Unknown
  <2> QED BY <1>4, <1>7, <2>1, <2>2 DEF Command, MissInv
<1>8. CASE ExecCommand
  <2>1. pc' \in {"extension", "exit"}
    BY <1>8 DEF ExecCommand, Report, Exit
  <2>2. ~Plain
    BY <1>8, PlainUnknown DEF ExecCommand, Runs, Unknown
  <2> QED BY <1>4, <1>8, <2>1, <2>2 DEF ExecCommand, MissInv
<1>9. CASE Fallback
  <2>1. Plain => args[1] \in path
    BY PlainUnknown DEF Plain, MissInv
  <2>2. Plain => pc' = "extension" /\ target' = args
    BY <1>9, <2>1, PlainUnknown DEF Fallback, FallsBack
  <2> QED BY <1>4, <1>9, <2>2 DEF Fallback, MissInv
<1>10. CASE RunExtension
  <2>1. Plain => target[1] \in path /\ target[1] # Blank
    BY <1>10, PlainUnknown DEF RunExtension, Plain, MissInv
  <2>2. Plain => child' \in Ending
    BY <1>10, <2>1 DEF RunExtension
  <2>3. Plain => child' # -1
    BY <2>2 DEF Ending
  <2>4. pc' = "exit"
    <3>1. CASE Report("invalid_input") \/ Report("not_found_or_not_visible")
      BY <3>1 DEF Report, Exit
    <3>2. ASSUME NEW e \in Ending,
                 CASE e = 0 -> Exit(0, <<>>)
                   [] e \in Status -> Exit(e, ChildVoices)
                   [] e = 256 -> Exit(SignalCode, ChildVoices)
                   [] OTHER -> Report("error")
          PROVE  pc' = "exit"
      <4> HIDE DispatchAssumption
      <4> QED BY <3>2 DEF Report, Exit
    <3> QED BY <1>10, <3>1, <3>2 DEF RunExtension
  <2> QED BY <1>4, <1>10, <2>3, <2>4 DEF RunExtension, MissInv
<1> QED BY <1>1, <1>2, <1>3, <1>5, <1>6, <1>7, <1>8, <1>9, <1>10 DEF Next

\* An extension that is on PATH all the time is never missed (extension.go 272-311).
THEOREM ExtensionsFound == Spec => []NeverMissed
<1>1. MissInv => NeverMissed
  BY DEF MissInv, NeverMissed, Plain
<1> QED BY <1>1, InitTypes, NextTypes, InitMiss, NextMiss, PTL DEF Spec

-----------------------------------------------------------------------------
(* What the user typed arrives. *)

KeptInv ==
  /\ depth = 0 => args = typed
  /\ typed # <<>> => args # <<>> /\ Ends(Tail(args), Tail(typed))
  /\ typed # <<>> /\ pc = "extension" /\ target[1] \in Name => Ends(target, Tail(typed))
  /\ typed # <<>> /\ child # -1 => Ends(target, Tail(typed))

LEMMA InitKept == Init => KeptInv
<1> SUFFICES ASSUME Init PROVE KeptInv
  OBVIOUS
<1>1. typed \in Seq(Word) /\ args = typed /\ pc = "load" /\ child = -1
  BY DEF Init
<1>2. typed # <<>> => Ends(Tail(typed), Tail(typed))
  <2> SUFFICES ASSUME typed # <<>> PROVE Ends(Tail(typed), Tail(typed))
    OBVIOUS
  <2>1. Tail(typed) \in Seq(Word)
    BY <1>1
  <2> QED BY <2>1, EndsItself
<1> QED BY <1>1, <1>2 DEF KeptInv

LEMMA NextKept ==
  ASSUME TypeOK, VoiceInv, KeptInv, [Next]_vars
  PROVE  KeptInv'
<1>1. CASE UNCHANGED <<typed, args, depth, target, child>> /\ (pc' = "extension" => pc =
         "extension")
  BY <1>1 DEF KeptInv
<1>2. CASE UNCHANGED vars \/ Outside \/ Load \/ Settle
  BY <1>1, <1>2 DEF vars, front, back, Outside, Load, Settle
<1>3. CASE Malformed \/ Help \/ Command
  BY <1>1, <1>3 DEF Malformed, Help, Command, front, Report, Exit
<1>4. typed # <<>> => args # <<>> /\ args \in Seq(Word) /\ typed \in Seq(Word)
                      /\ Tail(args) \in Seq(Word) /\ Tail(typed) \in Seq(Word)
  BY DEF TypeOK, KeptInv
<1>5. CASE Replace
  <2>1. /\ cfg[Head(args)] \in Expansion /\ args' = cfg[Head(args)] \o Tail(args)
        /\ depth' = depth + 1 /\ pc = "expand" /\ UNCHANGED <<typed, pc, target, child>>
    BY <1>5 DEF Replace, Replaceable, Expanded, TypeOK, Alias, back
  <2>2. typed # <<>> => args' # <<>> /\ Ends(Tail(args'), Tail(typed))
    <3> SUFFICES ASSUME typed # <<>> PROVE args' # <<>> /\ Ends(Tail(args'), Tail(typed))
      OBVIOUS
    <3>1. cfg[Head(args)] \in Seq(Word) /\ cfg[Head(args)] # <<>>
      BY <2>1
    <3>2. args' # <<>>
      BY <1>4, <2>1, <3>1
    <3>3. Ends(Tail(args), Tail(typed))
      BY DEF KeptInv
    <3> QED BY <1>4, <2>1, <3>1, <3>2, <3>3, EndsBehind
  <2>3. depth' # 0
    BY <2>1 DEF TypeOK
  <2> QED BY <2>1, <2>2, <2>3 DEF KeptInv
<1>6. typed # <<>> => Ends(args, Tail(typed))
  BY <1>4, EndsTail DEF KeptInv
<1>7. CASE Fallback
  <2>1. pc' = "extension" => target' = args
    BY <1>7 DEF Fallback, Report, Exit
  <2>2. child' = child /\ pc = "execute" /\ UNCHANGED <<typed, args, depth>>
    BY <1>7 DEF Fallback, front
  <2>3. target' = args \/ target' = target
    BY <1>7 DEF Fallback
  <2> QED BY <1>6, <2>1, <2>2, <2>3 DEF KeptInv
<1>8. CASE ExecCommand
  <2>1. child' = child /\ pc = "execute" /\ UNCHANGED <<typed, args, depth>>
    BY <1>8 DEF ExecCommand, front
  <2>2. child = -1
    BY <2>1 DEF VoiceInv
  <2>3. ASSUME typed # <<>>, pc' = "extension", target'[1] \in Name
        PROVE  Ends(target', Tail(typed))
    <3>1. PICK i \in 1..Len(args) :
            /\ NameAt(i)
            /\ target' = SubSeq(args, 1, i - 1) \o SubSeq(args, i + 1, Len(args))
      BY <1>8, <2>3 DEF ExecCommand, Report, Exit
    <3>2. CASE i = 1
      <4>1. target' = Tail(args)
        BY <1>4, <2>3, <3>1, <3>2
      <4> QED BY <2>3, <4>1 DEF KeptInv
    <3>3. CASE i # 1
      <4>1. args[1] = Flag
        BY <3>1, <3>3 DEF NameAt
      <4>2. target'[1] = args[1]
        <5> DEFINE front1 == SubSeq(args, 1, i - 1)  back1 == SubSeq(args, i + 1, Len(args))
        <5>1. front1 \in Seq(Word) /\ back1 \in Seq(Word) /\ Len(front1) = i - 1
          BY <1>4, <2>3
        <5>2. front1[1] = args[1]
          BY <1>4, <2>3, <3>3
        <5>3. (front1 \o back1)[1] = front1[1]
          <6> HIDE DEF front1, back1
          <6> QED BY <3>3, <5>1
        <5> QED BY <3>1, <5>2, <5>3
      <4> QED BY <2>3, <4>1, <4>2
    <3> QED BY <3>2, <3>3
  <2> QED BY <2>1, <2>2, <2>3 DEF KeptInv
<1>9. CASE RunExtension
  <2>1. pc = "extension" /\ UNCHANGED <<typed, args, depth, target>>
    BY <1>9 DEF RunExtension, front
  <2>2. child' # child => target[1] \in Name
    BY <1>9 DEF RunExtension, TypeOK
  <2>3. child' = child \/ (typed # <<>> => Ends(target, Tail(typed)))
    BY <2>1, <2>2 DEF KeptInv
  <2> QED BY <2>1, <2>3 DEF KeptInv
<1> QED BY <1>2, <1>3, <1>5, <1>7, <1>8, <1>9 DEF Next

\* What the user typed after the first word reaches the command or the extension, in
\* order and at the end (alias.go 169-199, extension.go 298-311).
THEOREM ArgumentsKept == Spec => []ArgsKept
<1>1. TypeOK /\ KeptInv => ArgsKept
  <2> SUFFICES ASSUME TypeOK, KeptInv PROVE ArgsKept
    OBVIOUS
  <2>1. typed # <<>> => args # <<>> /\ args \in Seq(Word) /\ Tail(typed) \in Seq(Word)
    BY DEF TypeOK, KeptInv
  <2>2. typed # <<>> => Ends(args, Tail(typed))
    BY <2>1, EndsTail DEF KeptInv
  <2> QED BY <2>2 DEF ArgsKept, KeptInv
<1> QED BY <1>1, InitTypes, NextTypes, InitVoice, NextVoice, InitKept, NextKept, PTL DEF Spec

-----------------------------------------------------------------------------
(* Induction, over numbers and over sequences, through the least counterexample. *)

HIDE DispatchAssumption

\* A set of numbers has a least one.
LEMMA LeastOf ==
  ASSUME NEW T \in SUBSET Nat, T # {} PROVE \E n \in T : \A m \in T : n <= m
<1> DEFINE R == {ss \in Nat \X Nat : ss[1] < ss[2]}
<1>1. IsWellFoundedOn(R, Nat)
  BY NatLessThanWellFounded DEF OpToRel
<1>2. \A x, y \in Nat : <<y, x>> \in R <=> y < x
  OBVIOUS
<1> HIDE DEF R
<1>3. PICK x \in T : \A y \in T : ~(<<y, x>> \in R)
  BY <1>1, WFMin
<1>4. \A y \in T : ~(y < x)
  BY <1>2, <1>3
<1> QED BY <1>4

\* Induction, over a set of numbers and not over a predicate.
LEMMA UpTo ==
  ASSUME NEW N \in Nat, NEW T, 0 \in T, \A n \in 1..N : n - 1 \in T => n \in T
  PROVE  N \in T
<1> SUFFICES ASSUME (0..N) \ T # {} PROVE FALSE
  OBVIOUS
<1>1. PICK n \in (0..N) \ T : \A m \in (0..N) \ T : n <= m
  <2>1. (0..N) \ T \in SUBSET Nat
    OBVIOUS
  <2> QED BY <2>1, LeastOf
<1>2. n \in 1..N
  BY <1>1
<1>3. n - 1 \in 0..N /\ ~(n <= n - 1)
  BY <1>2
<1>4. n - 1 \in T
  BY <1>1, <1>3
<1> QED BY <1>1, <1>2, <1>4

\* Induction over sequences.
LEMMA OverSeq ==
  ASSUME NEW S, NEW T, <<>> \in T, \A s \in Seq(S), c \in S : s \in T => Append(s, c) \in T
  PROVE  \A s \in Seq(S) : s \in T
<1> SUFFICES ASSUME NEW w \in Seq(S), w \notin T PROVE FALSE
  OBVIOUS
<1> DEFINE L == {n \in Nat : \E s \in Seq(S) : s \notin T /\ Len(s) = n}
<1>1. L \in SUBSET Nat /\ Len(w) \in L
  BY LenProperties
<1> HIDE DEF L
<1>2. PICK n \in L : \A m \in L : n <= m
  BY <1>1, LeastOf
<1>3. PICK s \in Seq(S) : s \notin T /\ Len(s) = n
  BY <1>2 DEF L
<1>4. PICK r \in Seq(S), c \in S : s = Append(r, c) /\ Len(s) = Len(r) + 1
  <2>1. PICK r \in Seq(S), c \in S : s = Append(r, c)
    BY <1>3, SequenceEmptyOrAppend
  <2>2. Len(s) = Len(r) + 1
    BY <2>1, AppendProperties
  <2> QED BY <2>1, <2>2
<1>5. r \notin T
  BY <1>3, <1>4
<1>6. Len(r) \in Nat
  BY LenProperties
<1>7. Len(r) \in L
  BY <1>5, <1>6 DEF L
<1> QED BY <1>2, <1>3, <1>4, <1>6, <1>7

\* What is taken from place to place by the steps.
LEMMA Iterates ==
  ASSUME NEW S, NEW s0 \in S, NEW N \in Nat, NEW step \in [1..N -> [S -> S]]
  PROVE  \E g \in [0..N -> S] : g[0] = s0 /\ \A i \in 1..N : g[i] = step[i][g[i - 1]]
<1> DEFINE T == {n \in 0..N : \E g \in [0..n -> S] : g[0] = s0 /\ \A i \in 1..n : g[i] =
         step[i][g[i - 1]]}
<1>1. 0 \in T
  <2> DEFINE g == [i \in 0..0 |-> s0]
  <2>1. g \in [0..0 -> S] /\ g[0] = s0 /\ \A i \in 1..0 : g[i] = step[i][g[i - 1]]
    OBVIOUS
  <2> HIDE DEF g
  <2> QED BY <2>1
<1>2. ASSUME NEW n \in 1..N, n - 1 \in T PROVE n \in T
  <2>1. PICK g \in [0..n - 1 -> S] : g[0] = s0 /\ \A i \in 1..n - 1 : g[i] = step[i][g[i - 1]]
    BY <1>2
  <2> DEFINE h == [i \in 0..n |-> IF i = n THEN step[n][g[n - 1]] ELSE g[i]]
  <2>2. h \in [0..n -> S]
    <3>1. g[n - 1] \in S
      BY <2>1
    <3>2. step[n][g[n - 1]] \in S
      BY <3>1
    <3> QED BY <2>1, <3>2
  <2>3. h[0] = s0
    BY <2>1
  <2>4. ASSUME NEW i \in 1..n PROVE h[i] = step[i][h[i - 1]]
    <3>1. h[i - 1] = g[i - 1]
      OBVIOUS
    <3>2. i # n => i \in 1..n - 1 /\ h[i] = g[i]
      OBVIOUS
    <3>3. i = n => h[i] = step[n][g[n - 1]]
      OBVIOUS
    <3> HIDE DEF h
    <3> QED BY <2>1, <3>1, <3>2, <3>3
  <2> HIDE DEF h
  <2> QED BY <2>2, <2>3, <2>4
<1>3. \A n \in 1..N : n - 1 \in T => n \in T
  BY <1>2
<1> HIDE DEF T
<1>4. N \in T
  BY <1>1, <1>3, UpTo
<1> QED BY <1>4 DEF T

-----------------------------------------------------------------------------
(* The loop of splitCommandLine, character by character. *)

State ==
  [fields : Seq(Seq(Chars)), cur : Seq(Chars), inField : BOOLEAN,
   quote : {NoQuote, SingleQuote, DoubleQuote}, escaped : BOOLEAN]

\* Outside a field nothing is left of one.
Steady == {st \in State : st.inField \/ st.cur = <<>>}

\* Each operation of the loop leaves such a state.
LEMMA WriteSteady ==
  ASSUME NEW st \in Steady, NEW ch \in Chars PROVE Write(st, ch) \in Steady
<1>1. Append(st.cur, ch) \in Seq(Chars)
  BY AppendProperties DEF Steady, State
<1> DEFINE w == Append(st.cur, ch)
<1>2. Write(st, ch) = [st EXCEPT !.cur = w, !.inField = TRUE]
  BY DEF Write
<1>3. w \in Seq(Chars)
  BY <1>1
<1> HIDE DEF w
<1> QED BY <1>2, <1>3 DEF Steady, State

LEMMA FlushSteady ==
  ASSUME NEW st \in Steady PROVE Flush(st) \in Steady
<1>1. Append(st.fields, st.cur) \in Seq(Seq(Chars))
  BY AppendProperties DEF Steady, State
<1> DEFINE w == Append(st.fields, st.cur)
<1>2. Flush(st) = IF st.inField THEN [st EXCEPT !.fields = w, !.cur = <<>>, !.inField =
         FALSE] ELSE st
  BY DEF Flush
<1>3. w \in Seq(Seq(Chars))
  BY <1>1
<1> HIDE DEF w
<1>4. CASE ~st.inField
  BY <1>2, <1>4
<1>5. CASE st.inField
  <2>1. Flush(st) = [st EXCEPT !.fields = w, !.cur = <<>>, !.inField = FALSE]
    BY <1>2, <1>5
  <2>2. <<>> \in Seq(Chars)
    BY EmptySeq
  <2> QED BY <1>3, <2>1, <2>2 DEF Steady, State
<1> QED BY <1>4, <1>5

\* One round of the loop does.
LEMMA ScanSteady ==
  ASSUME NEW st \in Steady, NEW ch \in Chars PROVE Scan(st, ch) \in Steady
<1> DEFINE w == Write(st, ch)
           f == Flush(st)
<1>1. w \in Steady /\ f \in Steady /\ w.inField
  BY WriteSteady, FlushSteady DEF Write, Steady, State
<1>2. \/ Scan(st, ch) = [w EXCEPT !.escaped = FALSE]
      \/ Scan(st, ch) = [st EXCEPT !.escaped = TRUE, !.inField = TRUE]
      \/ Scan(st, ch) = [st EXCEPT !.quote = NoQuote]
      \/ Scan(st, ch) = w
      \/ ch \in {SingleQuote, DoubleQuote} /\ Scan(st, ch) = [st EXCEPT !.quote = ch, !.inField =
               TRUE]
      \/ Scan(st, ch) = f
  BY DEF Scan
<1> HIDE DEF w, f
<1> QED BY <1>1, <1>2 DEF Steady, State

LEMMA Begins == State0 \in Steady
  BY DEF State0, Steady, State

\* The loop is the only way through the text.
LEMMA LoopIs ==
  ASSUME NEW st \in Steady, NEW text \in Seq(Chars), NEW N, N = Len(text),
         NEW h \in [0..N -> Steady], h[0] = st, \A i \in 1..N : h[i] = Scan(h[i - 1], text[i])
  PROVE  Loop(st, text) = h[N]
<1> DEFINE step == [i \in 1..N |-> [x \in Steady |-> Scan(x, text[i])]]
           after[n \in 0..N] == IF n = 0 THEN st ELSE Scan(after[n - 1], text[n])
<1>1. N \in Nat
  BY LenProperties
<1>2. \A i \in 1..N : text[i] \in Chars
  BY ElementOfSeq
<1>3. step \in [1..N -> [Steady -> Steady]]
  BY <1>2, ScanSteady
<1>4. \A i \in 1..N, x \in Steady : step[i][x] = Scan(x, text[i])
  OBVIOUS
<1> HIDE DEF step
<1>5. h = [n \in 0..N |-> IF n = 0 THEN st ELSE Scan(h[n - 1], text[n])]
  BY <1>1
<1>6. after = [n \in 0..N |-> IF n = 0 THEN st ELSE Scan(after[n - 1], text[n])]
  BY <1>5
<1>7. after[0] = st /\ \A n \in 1..N : after[n] = Scan(after[n - 1], text[n])
  BY <1>1, <1>6
<1>8. Loop(st, text) = after[N]
  BY DEF Loop
<1> HIDE DEF after
<1> DEFINE T == {n \in 0..N : after[n] = h[n]}
<1>9. 0 \in T
  BY <1>1, <1>7
<1>10. \A n \in 1..N : n - 1 \in T => n \in T
  BY <1>1, <1>7
<1> HIDE DEF T
<1>11. N \in T
  BY <1>1, <1>9, <1>10, UpTo
<1> QED BY <1>8, <1>11 DEF T

\* There is a way of its steps from any state.
LEMMA StepsRun ==
  ASSUME NEW N \in Nat, NEW st \in Steady, NEW step \in [1..N -> [Steady -> Steady]]
  PROVE  \E h \in [0..N -> Steady] : h[0] = st /\ \A i \in 1..N : h[i] = step[i][h[i - 1]]
BY Iterates, SMT

\* The loop takes it.
LEMMA LoopRuns ==
  ASSUME NEW st \in Steady, NEW text \in Seq(Chars), NEW N, N = Len(text)
  PROVE  \E h \in [0..N -> Steady] :
           h[0] = st /\ (\A i \in 1..N : h[i] = Scan(h[i - 1], text[i])) /\ Loop(st, text) = h[N]
<1> DEFINE step == [i \in 1..N |-> [x \in Steady |-> Scan(x, text[i])]]
<1>1. N \in Nat
  BY LenProperties
<1>2. \A i \in 1..N : text[i] \in Chars
  BY ElementOfSeq
<1>3. step \in [1..N -> [Steady -> Steady]]
  BY <1>2, ScanSteady
<1>4. \A i \in 1..N, x \in Steady : step[i][x] = Scan(x, text[i])
  OBVIOUS
<1> HIDE DEF step
<1>5. PICK h \in [0..N -> Steady] : h[0] = st /\ \A i \in 1..N : h[i] = step[i][h[i - 1]]
  BY <1>1, <1>3, StepsRun
<1>6. \A i \in 1..N : h[i] = Scan(h[i - 1], text[i])
  BY <1>1, <1>4, <1>5
<1>7. Loop(st, text) = h[N]
  BY <1>5, <1>6, LoopIs
<1> QED BY <1>5, <1>6, <1>7

\* Without a character the loop does nothing; one more is one more round.
LEMMA LoopEmpty == ASSUME NEW st \in Steady PROVE Loop(st, <<>>) = st
<1> DEFINE h == [i \in 0..0 |-> st]
<1>1. <<>> \in Seq(Chars) /\ 0 = Len(<<>>)
  BY EmptySeq
<1>2. h \in [0..0 -> Steady] /\ h[0] = st
  OBVIOUS
<1>3. \A i \in 1..0 : FALSE
  OBVIOUS
<1> HIDE DEF h
<1>4. Loop(st, <<>>) = h[0]
  BY <1>1, <1>2, <1>3, LoopIs
<1> QED BY <1>2, <1>4

LEMMA LoopAppend ==
  ASSUME NEW st \in Steady, NEW s \in Seq(Chars), NEW ch \in Chars
  PROVE  /\ Loop(st, s) \in Steady
         /\ Loop(st, Append(s, ch)) = Scan(Loop(st, s), ch)
<1>1. PICK n \in Nat : n = Len(s)
  BY LenProperties
<1>2. PICK g \in [0..n -> Steady] :
        g[0] = st /\ (\A i \in 1..n : g[i] = Scan(g[i - 1], s[i])) /\ Loop(st, s) = g[n]
  BY <1>1, LoopRuns
<1>3. Loop(st, s) \in Steady
  BY <1>2
<1> DEFINE v == Append(s, ch)
           h == [i \in 0..n + 1 |-> IF i = n + 1 THEN Scan(g[n], ch) ELSE g[i]]
<1>4. v \in Seq(Chars) /\ Len(v) = n + 1 /\ (\A i \in 1..n : v[i] = s[i]) /\ v[n + 1] = ch
  BY <1>1, AppendProperties
<1> HIDE DEF v
<1>5. h \in [0..n + 1 -> Steady]
  <2>1. Scan(g[n], ch) \in Steady
    BY ScanSteady
  <2> QED BY <2>1
<1>6. h[0] = st /\ h[n + 1] = Scan(g[n], ch) /\ \A i \in 0..n : h[i] = g[i]
  BY <1>2
<1> HIDE DEF h
<1>7. ASSUME NEW i \in 1..n + 1 PROVE h[i] = Scan(h[i - 1], v[i])
  <2>1. CASE i = n + 1
    BY <1>4, <1>6, <2>1
  <2>2. CASE i # n + 1
    <3>1. i \in 1..n /\ i - 1 \in 0..n /\ i \in 0..n
      BY <2>2
    <3> QED BY <1>2, <1>4, <1>6, <3>1
  <2> QED BY <2>1, <2>2
<1>8. Loop(st, v) = h[n + 1]
  BY <1>4, <1>5, <1>6, <1>7, LoopIs
<1> QED BY <1>2, <1>3, <1>6, <1>8 DEF v

\* Two sequences, one after the other, and one element more.
LEMMA JoinAppend ==
  ASSUME NEW S, NEW s \in Seq(S), NEW t \in Seq(S), NEW e \in S
  PROVE  s \o Append(t, e) = Append(s \o t, e)
<1>1. Append(t, e) = t \o <<e>>
  BY AppendIsConcat
<1>2. s \o t \in Seq(S)
  BY ConcatProperties
<1>3. Append(s \o t, e) = (s \o t) \o <<e>>
  BY <1>2, AppendIsConcat
<1>4. <<e>> \in Seq(S)
  OBVIOUS
<1>5. (s \o t) \o <<e>> = s \o (t \o <<e>>)
  BY <1>4, ConcatAssociative
<1> QED BY <1>1, <1>3, <1>5, Zenon

\* The loop over one text and another goes on where it was.
LEMMA LoopJoin ==
  ASSUME NEW st \in Steady, NEW s \in Seq(Chars), NEW t \in Seq(Chars)
  PROVE  Loop(st, s \o t) = Loop(Loop(st, s), t) /\ Loop(Loop(st, s), t) \in Steady
<1> DEFINE T == {u \in Seq(Chars) : /\ Loop(st, s \o u) = Loop(Loop(st, s), u)
                                   /\ Loop(Loop(st, s), u) \in Steady}
<1>0. Loop(st, s) \in Steady
  BY LoopRuns
<1>1. <<>> \in T
  <2>1. s \o <<>> = s
    BY ConcatEmptySeq
  <2>2. Loop(Loop(st, s), <<>>) = Loop(st, s)
    BY <1>0, LoopEmpty
  <2>3. <<>> \in Seq(Chars)
    BY EmptySeq
  <2> QED BY <1>0, <2>1, <2>2, <2>3
<1>2. ASSUME NEW u \in Seq(Chars), NEW ch \in Chars, u \in T
      PROVE  Append(u, ch) \in T
  <2>1. s \o u \in Seq(Chars) /\ Append(u, ch) \in Seq(Chars)
    BY ConcatProperties, AppendProperties
  <2>2. s \o Append(u, ch) = Append(s \o u, ch)
    BY JoinAppend
  <2>3. Loop(st, Append(s \o u, ch)) = Scan(Loop(st, s \o u), ch)
    BY <2>1, LoopAppend
  <2>4. Loop(Loop(st, s), Append(u, ch)) = Scan(Loop(Loop(st, s), u), ch)
    BY <1>0, LoopAppend
  <2>5. Loop(st, s \o u) = Loop(Loop(st, s), u) /\ Loop(Loop(st, s), u) \in Steady
    BY <1>2
  <2>6. Scan(Loop(Loop(st, s), u), ch) \in Steady
    BY <2>5, ScanSteady
  <2>7. Loop(st, s \o Append(u, ch)) = Loop(Loop(st, s), Append(u, ch))
    BY <2>2, <2>3, <2>4, <2>5, Zenon
  <2>8. Loop(Loop(st, s), Append(u, ch)) \in Steady
    BY <2>4, <2>6, Zenon
  <2> QED BY <2>1, <2>7, <2>8
<1> HIDE DEF T
<1>3. t \in T
  BY <1>1, <1>2, OverSeq
<1> QED BY <1>3 DEF T

\* A state, by its parts.
Of(f, c, i, q, e) == [fields |-> f, cur |-> c, inField |-> i, quote |-> q, escaped |-> e]

\* A state that has the fields F before its own.
With(F, st) == [st EXCEPT !.fields = F \o @]

\* The two truth values, as terms.
Yes == TRUE
No  == FALSE

\* The ways a state is changed, as names that the provers do not take apart.
Opened(st, r, v) == [st EXCEPT !.quote = r, !.inField = v]
Marked(st, x, v) == [st EXCEPT !.escaped = x, !.inField = v]
Wrote(st, w, v) == [st EXCEPT !.cur = w, !.inField = v]
Flushed(st, g, w, v) == [st EXCEPT !.fields = g, !.cur = w, !.inField = v]

\* Every state has its parts, and has them back.
LEMMA PartsOf ==
  ASSUME NEW st \in Steady
  PROVE  \E f \in Seq(Seq(Chars)), c \in Seq(Chars), i \in BOOLEAN,
            q \in {NoQuote, SingleQuote, DoubleQuote}, e \in BOOLEAN :
           st = Of(f, c, i, q, e)
BY DEF Steady, State, Of

LEMMA IsOf ==
  ASSUME NEW f, NEW c, NEW i, NEW q, NEW e, NEW st, st = Of(f, c, i, q, e)
  PROVE  st.fields = f /\ st.cur = c /\ st.inField = i /\ st.quote = q /\ st.escaped = e
BY DEF Of

\* One field of a state, or two, set.
LEMMA Refield ==
  ASSUME NEW f, NEW c, NEW i, NEW q, NEW e, NEW st, st = Of(f, c, i, q, e), NEW g
  PROVE  [st EXCEPT !.fields = g] = Of(g, c, i, q, e)
BY DEF Of

LEMMA Recur ==
  ASSUME NEW f, NEW c, NEW i, NEW q, NEW e, NEW st, st = Of(f, c, i, q, e), NEW w
  PROVE  [st EXCEPT !.cur = w] = Of(f, w, i, q, e)
BY DEF Of

LEMMA Requote ==
  ASSUME NEW f, NEW c, NEW i, NEW q, NEW e, NEW st, st = Of(f, c, i, q, e), NEW r
  PROVE  [st EXCEPT !.quote = r] = Of(f, c, i, r, e)
BY DEF Of

LEMMA Unescaping ==
  ASSUME NEW f, NEW c, NEW i, NEW q, NEW e, NEW st, st = Of(f, c, i, q, e), NEW v
  PROVE  [st EXCEPT !.escaped = v] = Of(f, c, i, q, v)
BY DEF Of

LEMMA Marking ==
  ASSUME NEW f, NEW c, NEW i, NEW q, NEW e, NEW st, st = Of(f, c, i, q, e), NEW v
  PROVE  [st EXCEPT !.inField = v] = Of(f, c, v, q, e)
BY DEF Of

LEMMA Opening ==
  ASSUME NEW f, NEW c, NEW i, NEW q, NEW e, NEW st, st = Of(f, c, i, q, e), NEW r, NEW v
  PROVE  Opened(st, r, v) = Of(f, c, v, r, e)
<1>1. PICK m : m = [st EXCEPT !.quote = r]
  OBVIOUS
<1>2. m = Of(f, c, i, r, e)
  BY <1>1, Requote
<1>3. [m EXCEPT !.inField = v] = Of(f, c, v, r, e)
  BY <1>2, Marking
<1>4. Opened(st, r, v) = [[st EXCEPT !.quote = r] EXCEPT !.inField = v]
  BY DEF Opened
<1> QED BY <1>1, <1>3, <1>4, Zenon

LEMMA Escaping ==
  ASSUME NEW f, NEW c, NEW i, NEW q, NEW e, NEW st, st = Of(f, c, i, q, e), NEW x, NEW v
  PROVE  Marked(st, x, v) = Of(f, c, v, q, x)
<1>1. PICK m : m = [st EXCEPT !.escaped = x]
  OBVIOUS
<1>2. m = Of(f, c, i, q, x)
  BY <1>1, Unescaping
<1>3. [m EXCEPT !.inField = v] = Of(f, c, v, q, x)
  BY <1>2, Marking
<1>4. Marked(st, x, v) = [[st EXCEPT !.escaped = x] EXCEPT !.inField = v]
  BY DEF Marked
<1> QED BY <1>1, <1>3, <1>4, Zenon

LEMMA Writing ==
  ASSUME NEW f, NEW c, NEW i, NEW q, NEW e, NEW st, st = Of(f, c, i, q, e), NEW w, NEW v
  PROVE  Wrote(st, w, v) = Of(f, w, v, q, e)
<1>1. PICK m : m = [st EXCEPT !.cur = w]
  OBVIOUS
<1>2. m = Of(f, w, i, q, e)
  BY <1>1, Recur
<1>3. [m EXCEPT !.inField = v] = Of(f, w, v, q, e)
  BY <1>2, Marking
<1>4. Wrote(st, w, v) = [[st EXCEPT !.cur = w] EXCEPT !.inField = v]
  BY DEF Wrote
<1> QED BY <1>1, <1>3, <1>4, Zenon

LEMMA Flushing ==
  ASSUME NEW f, NEW c, NEW i, NEW q, NEW e, NEW st, st = Of(f, c, i, q, e),
         NEW g, NEW w, NEW v
  PROVE  Flushed(st, g, w, v) = Of(g, w, v, q, e)
<1>1. PICK m : m = [st EXCEPT !.fields = g]
  OBVIOUS
<1>2. m = Of(g, c, i, q, e)
  BY <1>1, Refield
<1>3. Wrote(m, w, v) = Of(g, w, v, q, e)
  BY <1>2, Writing
<1>4. Flushed(st, g, w, v) = Wrote([st EXCEPT !.fields = g], w, v)
  BY DEF Flushed, Wrote
<1> QED BY <1>1, <1>3, <1>4, Zenon

\* What writing, flushing and earlier words make of the parts.
LEMMA WriteOf ==
  ASSUME NEW f, NEW c, NEW i, NEW q, NEW e, NEW ch
  PROVE  Write(Of(f, c, i, q, e), ch) = Of(f, Append(c, ch), Yes, q, e)
<1>1. PICK st : st = Of(f, c, i, q, e)
  OBVIOUS
<1>2. Write(st, ch) = Wrote(st, Append(st.cur, ch), Yes)
  BY Zenon DEF Write, Wrote, Yes
<1>3. st.cur = c
  BY <1>1, IsOf
<1>4. \A w, v : Wrote(st, w, v) = Of(f, w, v, q, e)
  BY <1>1, Writing
<1>5. Write(st, ch) = Of(f, Append(c, ch), Yes, q, e)
  BY <1>2, <1>3, <1>4, Zenon
<1> QED BY <1>1, <1>5, Zenon

LEMMA FlushOf ==
  ASSUME NEW f, NEW c, NEW i \in BOOLEAN, NEW q, NEW e
  PROVE  Flush(Of(f, c, i, q, e)) = IF i = Yes
           THEN Of(Append(f, c), <<>>, No, q, e) ELSE Of(f, c, i, q, e)
<1>1. PICK st : st = Of(f, c, i, q, e)
  OBVIOUS
<1>2. Flush(st) = IF st.inField THEN Flushed(st, Append(st.fields, st.cur), <<>>, No) ELSE st
  BY Zenon DEF Flush, Flushed, No
<1>3. st.fields = f /\ st.cur = c /\ st.inField = i
  BY <1>1, IsOf
<1>4. \A g, w, v : Flushed(st, g, w, v) = Of(g, w, v, q, e)
  BY <1>1, Flushing
<1>5. Flushed(st, Append(f, c), <<>>, No) = Of(Append(f, c), <<>>, No, q, e)
  BY <1>4, Zenon
<1>6. Flush(st) = IF i = Yes THEN Of(Append(f, c), <<>>, No, q, e) ELSE st
  <2>1. ASSUME st.inField PROVE i = Yes
    BY <1>3, <2>1 DEF Yes
  <2>2. ASSUME i = Yes PROVE st.inField
    BY <1>3, <2>2, Zenon DEF Yes
  <2>3. Flush(st) = IF st.inField THEN Of(Append(f, c), <<>>, No, q, e) ELSE st
    BY <1>2, <1>3, <1>5, Zenon
  <2> QED BY <2>1, <2>2, <2>3, Zenon
<1> QED BY <1>1, <1>6, Zenon

LEMMA WithOf ==
  ASSUME NEW f, NEW c, NEW i, NEW q, NEW e, NEW F
  PROVE  With(F, Of(f, c, i, q, e)) = Of(F \o f, c, i, q, e)
<1>1. PICK st : st = Of(f, c, i, q, e)
  OBVIOUS
<1>2. With(F, st) = [st EXCEPT !.fields = F \o st.fields]
  BY Zenon DEF With
<1>3. st.fields = f
  BY <1>1, IsOf
<1>4. \A g : [st EXCEPT !.fields = g] = Of(g, c, i, q, e)
  BY <1>1, Refield
<1>5. With(F, st) = Of(F \o f, c, i, q, e)
  BY <1>2, <1>3, <1>4, Zenon
<1> QED BY <1>1, <1>5, Zenon

\* The characters with a meaning are five, and none is NoQuote.
LEMMA Signs ==
  /\ SingleQuote # DoubleQuote /\ SingleQuote # Backslash /\ DoubleQuote # Backslash
  /\ SpaceChar \notin {SingleQuote, DoubleQuote, Backslash}
  /\ NoQuote \notin {SingleQuote, DoubleQuote}
  /\ {SingleQuote, DoubleQuote, Backslash, SpaceChar} \subseteq Chars
BY DEF SingleQuote, DoubleQuote, Backslash, SpaceChar, NoQuote, Chars

\* What a round of the loop makes of a state.
LEMMA ScanEscaped ==
  ASSUME NEW f, NEW c, NEW i, NEW q, NEW ch
  PROVE  Scan(Of(f, c, i, q, Yes), ch) = Of(f, Append(c, ch), Yes, q, No)
<1>1. Write(Of(f, c, i, q, Yes), ch) = Of(f, Append(c, ch), Yes, q, Yes)
  BY WriteOf
<1>2. PICK w : w = Of(f, Append(c, ch), Yes, q, Yes)
  OBVIOUS
<1>3. \A v : [w EXCEPT !.escaped = v] = Of(f, Append(c, ch), Yes, q, v)
  <2>1. \A x, y : w = Of(f, x, y, q, Yes) => \A v : [w EXCEPT !.escaped = v] = Of(f, x, y, q, v)
    BY Unescaping
  <2> QED BY <1>2, <2>1, Zenon
<1>4. PICK st : st = Of(f, c, i, q, Yes)
  OBVIOUS
<1>5. st.escaped = Yes
  BY <1>4, IsOf
<1>6. Scan(st, ch) = [Write(st, ch) EXCEPT !.escaped = No]
  BY <1>5 DEF Scan, Yes, No
<1> QED BY <1>1, <1>2, <1>3, <1>4, <1>6, Zenon

LEMMA ScanBackslash ==
  ASSUME NEW f, NEW c, NEW i, NEW q, q # SingleQuote
  PROVE  Scan(Of(f, c, i, q, No), Backslash) = Of(f, c, Yes, q, Yes)
<1>1. PICK st : st = Of(f, c, i, q, No)
  OBVIOUS
<1>2. st.quote = q /\ st.escaped = No
  BY <1>1, IsOf
<1>3. Scan(st, Backslash) = Marked(st, Yes, Yes)
  BY <1>2 DEF Scan, Escapes, Marked, Yes, No
<1>4. \A x, v : Marked(st, x, v) = Of(f, c, v, q, x)
  BY <1>1, Escaping
<1> QED BY <1>1, <1>3, <1>4, Zenon

LEMMA ScanClosing ==
  ASSUME NEW f, NEW c, NEW i, NEW q \in {SingleQuote, DoubleQuote}
  PROVE  Scan(Of(f, c, i, q, No), q) = Of(f, c, i, NoQuote, No)
<1>1. PICK st : st = Of(f, c, i, q, No)
  OBVIOUS
<1>2. st.quote = q /\ st.escaped = No
  BY <1>1, IsOf
<1>3. q # NoQuote /\ q # Backslash
  BY Signs
<1>4. Scan(st, q) = [st EXCEPT !.quote = NoQuote]
  BY <1>2, <1>3 DEF Scan, Escapes, No
<1>5. \A r : [st EXCEPT !.quote = r] = Of(f, c, i, r, No)
  BY <1>1, Requote
<1> QED BY <1>1, <1>4, <1>5, Zenon

LEMMA ScanQuoted ==
  ASSUME NEW f, NEW c, NEW i, NEW q \in {SingleQuote, DoubleQuote}, NEW ch,
         ch # q, ~(ch = Backslash /\ q # SingleQuote)
  PROVE  Scan(Of(f, c, i, q, No), ch) = Of(f, Append(c, ch), Yes, q, No)
<1>1. Write(Of(f, c, i, q, No), ch) = Of(f, Append(c, ch), Yes, q, No)
  BY WriteOf
<1>2. PICK st : st = Of(f, c, i, q, No)
  OBVIOUS
<1>3. st.quote = q /\ st.escaped = No
  BY <1>2, IsOf
<1>4. q # NoQuote
  BY Signs
<1>5. Scan(st, ch) = Write(st, ch)
  BY <1>3, <1>4 DEF Scan, Escapes, No
<1> QED BY <1>1, <1>2, <1>5, Zenon

LEMMA ScanOpening ==
  ASSUME NEW f, NEW c, NEW i, NEW ch \in {SingleQuote, DoubleQuote}
  PROVE  Scan(Of(f, c, i, NoQuote, No), ch) = Of(f, c, Yes, ch, No)
<1>1. PICK st : st = Of(f, c, i, NoQuote, No)
  OBVIOUS
<1>2. st.quote = NoQuote /\ st.escaped = No
  BY <1>1, IsOf
<1>3. ch # Backslash /\ ch # SpaceChar
  BY Signs
<1>4. Scan(st, ch) = Opened(st, ch, Yes)
  BY <1>2, <1>3 DEF Scan, Escapes, Opened, Yes, No
<1>5. \A r, v : Opened(st, r, v) = Of(f, c, v, r, No)
  BY <1>1, Opening
<1> QED BY <1>1, <1>4, <1>5, Zenon

LEMMA ScanSpace ==
  ASSUME NEW f, NEW c, NEW i
  PROVE  Scan(Of(f, c, i, NoQuote, No), SpaceChar) = Flush(Of(f, c, i, NoQuote, No))
<1>1. PICK st : st = Of(f, c, i, NoQuote, No)
  OBVIOUS
<1>2. st.quote = NoQuote /\ st.escaped = No
  BY <1>1, IsOf
<1>3. SpaceChar \notin {SingleQuote, DoubleQuote, Backslash}
  BY Signs
<1>4. Scan(st, SpaceChar) = Flush(st)
  BY <1>2, <1>3 DEF Scan, Escapes, No
<1> QED BY <1>1, <1>4, Zenon

LEMMA ScanPlain ==
  ASSUME NEW f, NEW c, NEW i, NEW ch,
         ch \notin {SingleQuote, DoubleQuote, Backslash, SpaceChar}
  PROVE  Scan(Of(f, c, i, NoQuote, No), ch) = Of(f, Append(c, ch), Yes, NoQuote, No)
<1>1. Write(Of(f, c, i, NoQuote, No), ch) = Of(f, Append(c, ch), Yes, NoQuote, No)
  BY WriteOf
<1>2. PICK st : st = Of(f, c, i, NoQuote, No)
  OBVIOUS
<1>3. st.quote = NoQuote /\ st.escaped = No
  BY <1>2, IsOf
<1>4. Scan(st, ch) = Write(st, ch)
  BY <1>3 DEF Scan, Escapes, No
<1> QED BY <1>1, <1>2, <1>4, Zenon

\* There are two truth values.
LEMMA TwoValues == BOOLEAN = {Yes, No} /\ Yes # No
BY DEF Yes, No

\* What fields a state has already makes no difference to the loop.
LEMMA FlushWith ==
  ASSUME NEW f \in Seq(Seq(Chars)), NEW c \in Seq(Chars), NEW i \in BOOLEAN, NEW q, NEW e,
         NEW F \in Seq(Seq(Chars))
  PROVE  Flush(Of(F \o f, c, i, q, e)) = With(F, Flush(Of(f, c, i, q, e)))
<1>1. Flush(Of(F \o f, c, i, q, e)) =
        IF i = Yes THEN Of(Append(F \o f, c), <<>>, No, q, e) ELSE Of(F \o f, c, i, q, e)
  BY FlushOf
<1>2. Flush(Of(f, c, i, q, e)) =
        IF i = Yes THEN Of(Append(f, c), <<>>, No, q, e) ELSE Of(f, c, i, q, e)
  BY FlushOf
<1>3. With(F, Of(Append(f, c), <<>>, No, q, e)) = Of(F \o Append(f, c), <<>>, No, q, e)
  BY WithOf
<1>4. With(F, Of(f, c, i, q, e)) = Of(F \o f, c, i, q, e)
  BY WithOf
<1>5. F \o Append(f, c) = Append(F \o f, c)
  BY JoinAppend
<1> QED BY <1>1, <1>2, <1>3, <1>4, <1>5, Zenon

LEMMA ScanWithOf ==
  ASSUME NEW f \in Seq(Seq(Chars)), NEW c \in Seq(Chars), NEW i \in BOOLEAN,
         NEW q \in {NoQuote, SingleQuote, DoubleQuote}, NEW e \in BOOLEAN,
         NEW F \in Seq(Seq(Chars)), NEW ch
  PROVE  Scan(Of(F \o f, c, i, q, e), ch) = With(F, Scan(Of(f, c, i, q, e), ch))
<1>1. Scan(Of(F \o f, c, i, q, Yes), ch) = With(F, Scan(Of(f, c, i, q, Yes), ch))
  <2>1. Scan(Of(F \o f, c, i, q, Yes), ch) = Of(F \o f, Append(c, ch), Yes, q, No)
    BY ScanEscaped
  <2>2. Scan(Of(f, c, i, q, Yes), ch) = Of(f, Append(c, ch), Yes, q, No)
    BY ScanEscaped
  <2>3. With(F, Of(f, Append(c, ch), Yes, q, No)) = Of(F \o f, Append(c, ch), Yes, q, No)
    BY WithOf
  <2> QED BY <2>1, <2>2, <2>3, Zenon
<1>2. ASSUME q # SingleQuote
      PROVE  Scan(Of(F \o f, c, i, q, No), Backslash) = With(F, Scan(Of(f, c, i, q, No), Backslash))
  <2>1. Scan(Of(F \o f, c, i, q, No), Backslash) = Of(F \o f, c, Yes, q, Yes)
    BY <1>2, ScanBackslash
  <2>2. Scan(Of(f, c, i, q, No), Backslash) = Of(f, c, Yes, q, Yes)
    BY <1>2, ScanBackslash
  <2>3. With(F, Of(f, c, Yes, q, Yes)) = Of(F \o f, c, Yes, q, Yes)
    BY WithOf
  <2> QED BY <2>1, <2>2, <2>3, Zenon
<1>3. ASSUME q \in {SingleQuote, DoubleQuote}
      PROVE  Scan(Of(F \o f, c, i, q, No), q) = With(F, Scan(Of(f, c, i, q, No), q))
  <2>1. Scan(Of(F \o f, c, i, q, No), q) = Of(F \o f, c, i, NoQuote, No)
    BY <1>3, ScanClosing
  <2>2. Scan(Of(f, c, i, q, No), q) = Of(f, c, i, NoQuote, No)
    BY <1>3, ScanClosing
  <2>3. With(F, Of(f, c, i, NoQuote, No)) = Of(F \o f, c, i, NoQuote, No)
    BY WithOf
  <2> QED BY <2>1, <2>2, <2>3, Zenon
<1>4. ASSUME q \in {SingleQuote, DoubleQuote}, ch # q, ~(ch = Backslash /\ q # SingleQuote)
      PROVE  Scan(Of(F \o f, c, i, q, No), ch) = With(F, Scan(Of(f, c, i, q, No), ch))
  <2>1. Scan(Of(F \o f, c, i, q, No), ch) = Of(F \o f, Append(c, ch), Yes, q, No)
    BY <1>4, ScanQuoted
  <2>2. Scan(Of(f, c, i, q, No), ch) = Of(f, Append(c, ch), Yes, q, No)
    BY <1>4, ScanQuoted
  <2>3. With(F, Of(f, Append(c, ch), Yes, q, No)) = Of(F \o f, Append(c, ch), Yes, q, No)
    BY WithOf
  <2> QED BY <2>1, <2>2, <2>3, Zenon
<1>5. ASSUME ch \in {SingleQuote, DoubleQuote}
      PROVE  Scan(Of(F \o f, c, i, NoQuote, No), ch) = With(F, Scan(Of(f, c, i, NoQuote, No), ch))
  <2>1. Scan(Of(F \o f, c, i, NoQuote, No), ch) = Of(F \o f, c, Yes, ch, No)
    BY <1>5, ScanOpening
  <2>2. Scan(Of(f, c, i, NoQuote, No), ch) = Of(f, c, Yes, ch, No)
    BY <1>5, ScanOpening
  <2>3. With(F, Of(f, c, Yes, ch, No)) = Of(F \o f, c, Yes, ch, No)
    BY WithOf
  <2> QED BY <2>1, <2>2, <2>3, Zenon
<1>6. Scan(Of(F \o f, c, i, NoQuote, No), SpaceChar) =
         With(F, Scan(Of(f, c, i, NoQuote, No), SpaceChar))
  <2>1. Scan(Of(F \o f, c, i, NoQuote, No), SpaceChar) = Flush(Of(F \o f, c, i, NoQuote, No))
    BY ScanSpace
  <2>2. Scan(Of(f, c, i, NoQuote, No), SpaceChar) = Flush(Of(f, c, i, NoQuote, No))
    BY ScanSpace
  <2>3. Flush(Of(F \o f, c, i, NoQuote, No)) = With(F, Flush(Of(f, c, i, NoQuote, No)))
    BY FlushWith
  <2> QED BY <2>1, <2>2, <2>3, Zenon
<1>7. ASSUME ch \notin {SingleQuote, DoubleQuote, Backslash, SpaceChar}
      PROVE  Scan(Of(F \o f, c, i, NoQuote, No), ch) = With(F, Scan(Of(f, c, i, NoQuote, No), ch))
  <2>1. Scan(Of(F \o f, c, i, NoQuote, No), ch) = Of(F \o f, Append(c, ch), Yes, NoQuote, No)
    BY <1>7, ScanPlain
  <2>2. Scan(Of(f, c, i, NoQuote, No), ch) = Of(f, Append(c, ch), Yes, NoQuote, No)
    BY <1>7, ScanPlain
  <2>3. With(F, Of(f, Append(c, ch), Yes, NoQuote, No)) =
           Of(F \o f, Append(c, ch), Yes, NoQuote, No)
    BY WithOf
  <2> QED BY <2>1, <2>2, <2>3, Zenon
<1>8. NoQuote # SingleQuote
  BY Signs
<1>9. CASE e = Yes
  BY <1>1, <1>9, Zenon
<1>10. CASE e = No /\ q # NoQuote
  <2>1. CASE ch = Backslash /\ q # SingleQuote
    BY <1>2, <1>10, <2>1, Zenon
  <2>2. CASE ch = q
    BY <1>3, <1>10, <2>2, Zenon
  <2> QED BY <1>4, <1>10, <2>1, <2>2, Zenon
<1>11. CASE e = No /\ q = NoQuote
  <2>1. CASE ch = Backslash
    BY <1>2, <1>8, <1>11, <2>1, Zenon
  <2>2. CASE ch = SpaceChar
    BY <1>6, <1>11, <2>2, Zenon
  <2>3. CASE ch \in {SingleQuote, DoubleQuote}
    BY <1>5, <1>11, <2>3, Zenon
  <2> QED BY <1>7, <1>11, <2>1, <2>2, <2>3, Zenon
<1>12. e = Yes \/ e = No
  BY TwoValues
<1> QED BY <1>9, <1>10, <1>11, <1>12, Zenon

LEMMA ScanWith ==
  ASSUME NEW st \in Steady, NEW F \in Seq(Seq(Chars)), NEW ch \in Chars
  PROVE  Scan(With(F, st), ch) = With(F, Scan(st, ch))
<1>1. PICK f \in Seq(Seq(Chars)), c \in Seq(Chars), i \in BOOLEAN,
           q \in {NoQuote, SingleQuote, DoubleQuote}, e \in BOOLEAN : st = Of(f, c, i, q, e)
  BY PartsOf
<1>2. With(F, Of(f, c, i, q, e)) = Of(F \o f, c, i, q, e)
  BY WithOf
<1>3. Scan(Of(F \o f, c, i, q, e), ch) = With(F, Scan(Of(f, c, i, q, e), ch))
  BY ScanWithOf
<1> QED BY <1>1, <1>2, <1>3, Zenon

\* Earlier words leave a state of the loop.
LEMMA WithSteady ==
  ASSUME NEW st \in Steady, NEW F \in Seq(Seq(Chars)) PROVE With(F, st) \in Steady
<1>1. F \o st.fields \in Seq(Seq(Chars))
  BY ConcatProperties DEF Steady, State
<1> DEFINE g == F \o st.fields
<1>2. With(F, st) = [st EXCEPT !.fields = g]
  BY DEF With
<1>3. g \in Seq(Seq(Chars))
  BY <1>1
<1> HIDE DEF g
<1> QED BY <1>2, <1>3 DEF Steady, State

LEMMA LoopWith ==
  ASSUME NEW st \in Steady, NEW F \in Seq(Seq(Chars)), NEW t \in Seq(Chars)
  PROVE  Loop(With(F, st), t) = With(F, Loop(st, t))
<1> DEFINE T == {s \in Seq(Chars) : Loop(With(F, st), s) = With(F, Loop(st, s))}
<1>0. With(F, st) \in Steady
  BY WithSteady
<1>1. <<>> \in T
  <2>1. Loop(With(F, st), <<>>) = With(F, st) /\ Loop(st, <<>>) = st
    BY <1>0, LoopEmpty
  <2>2. <<>> \in Seq(Chars)
    BY EmptySeq
  <2> QED BY <2>1, <2>2, Zenon
<1>2. ASSUME NEW s \in Seq(Chars), NEW c \in Chars, s \in T PROVE Append(s, c) \in T
  <2>1. Loop(st, s) \in Steady /\ Loop(st, Append(s, c)) = Scan(Loop(st, s), c)
    BY LoopAppend
  <2>2. Loop(With(F, st), Append(s, c)) = Scan(Loop(With(F, st), s), c)
    BY <1>0, LoopAppend
  <2>3. Loop(With(F, st), s) = With(F, Loop(st, s))
    BY <1>2
  <2>4. Scan(With(F, Loop(st, s)), c) = With(F, Scan(Loop(st, s), c))
    BY <2>1, ScanWith
  <2>5. Append(s, c) \in Seq(Chars)
    BY AppendProperties
  <2> QED BY <2>1, <2>2, <2>3, <2>4, <2>5, Zenon
<1> HIDE DEF T
<1>3. t \in T
  BY <1>1, <1>2, OverSeq
<1> QED BY <1>3 DEF T

-----------------------------------------------------------------------------
(* Where a text is split. *)

\* The start, by its parts.
LEMMA StartOf == State0 = Of(<<>>, <<>>, No, NoQuote, No)
BY DEF State0, Of, No

\* What the words of a text are, and how the loop is left after one more space.
LEMMA FlushComplete ==
  ASSUME NEW f \in Seq(Seq(Chars)), NEW c \in Seq(Chars), NEW i \in BOOLEAN, i = No => c = <<>>
  PROVE  \E r \in Seq(Seq(Chars)) : Flush(Of(f, c, i, NoQuote, No)) = Of(r, <<>>, No, NoQuote, No)
<1>1. Flush(Of(f, c, i, NoQuote, No)) =
        IF i = Yes THEN Of(Append(f, c), <<>>, No, NoQuote, No) ELSE Of(f, c, i, NoQuote, No)
  BY FlushOf
<1>2. Append(f, c) \in Seq(Seq(Chars))
  BY AppendProperties
<1>3. CASE i = Yes
  BY <1>1, <1>2, <1>3, Zenon
<1>4. CASE i = No
  BY <1>1, <1>4, TwoValues, Zenon
<1> QED BY <1>3, <1>4, TwoValues, Zenon

LEMMA Completed ==
  ASSUME NEW st \in Steady, Complete(st)
  PROVE  \E r \in Seq(Seq(Chars)) :
           /\ Flush(st) = Of(r, <<>>, No, NoQuote, No)
           /\ Scan(st, SpaceChar) = Of(r, <<>>, No, NoQuote, No)
           /\ Flush(st).fields = r
<1>1. PICK f \in Seq(Seq(Chars)), c \in Seq(Chars), i \in BOOLEAN,
           q \in {NoQuote, SingleQuote, DoubleQuote}, e \in BOOLEAN : st = Of(f, c, i, q, e)
  BY PartsOf
<1>2. st.cur = c /\ st.inField = i /\ st.quote = q /\ st.escaped = e
  BY <1>1, IsOf
<1>3. q = NoQuote /\ e = No
  BY <1>2 DEF Complete, No
<1>4. i = No => c = <<>>
  BY <1>2 DEF Steady, No
<1>5. PICK r \in Seq(Seq(Chars)) : Flush(Of(f, c, i, NoQuote, No)) = Of(r, <<>>, No, NoQuote, No)
  BY <1>4, FlushComplete
<1>6. Scan(Of(f, c, i, NoQuote, No), SpaceChar) = Flush(Of(f, c, i, NoQuote, No))
  BY ScanSpace
<1>7. st = Of(f, c, i, NoQuote, No)
  BY <1>1, <1>3, Zenon
<1>8. Flush(st) = Of(r, <<>>, No, NoQuote, No) /\ Scan(st, SpaceChar) = Of(r, <<>>, No, NoQuote, No)
  BY <1>5, <1>6, <1>7, Zenon
<1>9. Flush(st).fields = r
  BY <1>8, IsOf
<1> QED BY <1>8, <1>9

\* After a space the loop is at the start again, but for the words so far.
LEMMA WithStart ==
  ASSUME NEW r \in Seq(Seq(Chars)) PROVE With(r, State0) = Of(r, <<>>, No, NoQuote, No)
<1>1. PICK f : f = <<>>
  OBVIOUS
<1>3. With(r, Of(f, <<>>, No, NoQuote, No)) = Of(r \o f, <<>>, No, NoQuote, No)
  BY WithOf
<1>2. r \o <<>> = r
  BY ConcatEmptySeq
<1> QED BY <1>1, <1>2, <1>3, StartOf, Zenon

\* Fields before do not matter to whether a text is complete, and stay before the others.
LEMMA WithComplete ==
  ASSUME NEW st \in Steady, NEW F \in Seq(Seq(Chars)), Complete(st)
  PROVE  Complete(With(F, st)) /\ Flush(With(F, st)).fields = F \o Flush(st).fields
<1>1. PICK f \in Seq(Seq(Chars)), c \in Seq(Chars), i \in BOOLEAN,
           q \in {NoQuote, SingleQuote, DoubleQuote}, e \in BOOLEAN : st = Of(f, c, i, q, e)
  BY PartsOf
<1>2. With(F, Of(f, c, i, q, e)) = Of(F \o f, c, i, q, e)
  BY WithOf
<1>3. Flush(Of(F \o f, c, i, q, e)) = With(F, Flush(Of(f, c, i, q, e)))
  BY FlushWith
<1>4. Flush(With(F, st)) = With(F, Flush(st))
  BY <1>1, <1>2, <1>3, Zenon
<1>5. \A x \in Steady : With(F, x).fields = F \o x.fields /\ With(F, x).quote = x.quote
                        /\ With(F, x).escaped = x.escaped
  BY DEF With, Steady, State
<1>6. Flush(st) \in Steady
  BY FlushSteady
<1>7. Flush(With(F, st)).fields = F \o Flush(st).fields
  BY <1>4, <1>5, <1>6
<1>8. Complete(With(F, st))
  BY <1>5 DEF Complete
<1> QED BY <1>7, <1>8

\* A space is a text.
LEMMA Space == <<SpaceChar>> \in Seq(Chars) /\ SpaceChar \in Chars
BY Signs

\* A text is split where it has a space outside: two texts of any length that split,
\* parted by a space, split as each does (alias.go 204-254).
THEOREM SplitsAtSpaces ==
  ASSUME NEW t \in Seq(Chars), NEW u \in Seq(Chars), Splits(t), Splits(u)
  PROVE  SplitCommandLine(t \o <<SpaceChar>> \o u) = SplitCommandLine(t) \o SplitCommandLine(u)
<1> DEFINE st == Loop(State0, t)
           su == Loop(State0, u)
           ts == t \o <<SpaceChar>>
<1>1. st \in Steady /\ su \in Steady
  BY Begins, LoopRuns
<1>2. Complete(st) /\ Complete(su)
  BY DEF Splits
<1>3. ts = Append(t, SpaceChar) /\ ts \in Seq(Chars)
  BY Space, AppendIsConcat, AppendProperties
<1>4. Loop(State0, ts) = Scan(st, SpaceChar)
  BY <1>3, Begins, Space, LoopAppend
<1> HIDE DEF st, su, ts
<1>5. PICK r \in Seq(Seq(Chars)) :
        Scan(st, SpaceChar) = Of(r, <<>>, No, NoQuote, No) /\ Flush(st).fields = r
  BY <1>1, <1>2, Completed
<1>6. Loop(State0, ts) = With(r, State0)
  BY <1>4, <1>5, WithStart, Zenon
<1>7. Loop(State0, ts \o u) = Loop(Loop(State0, ts), u)
  BY <1>3, Begins, LoopJoin
<1>8. Loop(With(r, State0), u) = With(r, su)
  BY Begins, LoopWith DEF su
<1>9. Loop(State0, ts \o u) = With(r, su)
  BY <1>6, <1>7, <1>8, Zenon
<1>10. Complete(With(r, su)) /\ Flush(With(r, su)).fields = r \o Flush(su).fields
  BY <1>1, <1>2, WithComplete
<1>11. SplitCommandLine(ts \o u) = r \o Flush(su).fields
  BY <1>9, <1>10, Zenon DEF SplitCommandLine, Splits
<1>12. SplitCommandLine(t) = r /\ SplitCommandLine(u) = Flush(su).fields
  BY <1>5, Zenon DEF SplitCommandLine, st, su
<1> QED BY <1>11, <1>12, Zenon DEF ts

-----------------------------------------------------------------------------
(* How a quoted word is read. *)

\* Names for what the provers had better not take apart: the texts, the one without a character,
\* and a text with one more character, escaped.
Texts == Seq(Chars)
NoText == <<>>
More(s, ch, special) == s \o Escape(ch, special)

\* Each of them is a text.
LEMMA NoTextIn == NoText \in Texts
BY EmptySeq DEF NoText, Texts

LEMMA EscapeIn ==
  ASSUME NEW ch \in Chars, NEW special PROVE Escape(ch, special) \in Seq(Chars)
<1>1. Backslash \in Chars
  BY Signs
<1> QED BY <1>1 DEF Escape

LEMMA MoreIn ==
  ASSUME NEW s \in Texts, NEW ch \in Chars, NEW special PROVE More(s, ch, special) \in Texts
BY EscapeIn, ConcatProperties DEF More, Texts

\* What is escaped of a word is put together character by character, in no other way.
LEMMA EscapedIs ==
  ASSUME NEW word \in Seq(Chars), NEW special, NEW N, N = Len(word),
         NEW h \in [0..N -> Texts], h[0] = NoText,
         \A i \in 1..N : h[i] = More(h[i - 1], word[i], special)
  PROVE  Escaped(word, special) = h[N]
<1> DEFINE upTo[n \in 0..N] == IF n = 0 THEN NoText ELSE More(upTo[n - 1], word[n], special)
<1>1. N \in Nat
  BY LenProperties
<1>2. h = [n \in 0..N |-> IF n = 0 THEN NoText ELSE More(h[n - 1], word[n], special)]
  BY <1>1
<1>3. upTo = [n \in 0..N |-> IF n = 0 THEN NoText ELSE More(upTo[n - 1], word[n], special)]
  BY <1>2
<1>4. upTo[0] = NoText /\ \A n \in 1..N : upTo[n] = More(upTo[n - 1], word[n], special)
  BY <1>1, <1>3
<1>5. Escaped(word, special) = upTo[N]
  BY DEF Escaped, More, NoText
<1> HIDE DEF upTo
<1> DEFINE T == {n \in 0..N : upTo[n] = h[n]}
<1>6. 0 \in T
  BY <1>1, <1>4
<1>7. \A n \in 1..N : n - 1 \in T => n \in T
  BY <1>1, <1>4
<1> HIDE DEF T
<1>8. N \in T
  BY <1>1, <1>6, <1>7, UpTo
<1> QED BY <1>5, <1>8 DEF T

\* There is a way to put an escaped word together.
LEMMA StepsJoin ==
  ASSUME NEW N \in Nat, NEW step \in [1..N -> [Texts -> Texts]]
  PROVE  \E h \in [0..N -> Texts] : h[0] = NoText /\ \A i \in 1..N : h[i] = step[i][h[i - 1]]
BY NoTextIn, Iterates, SMT

\* Escaped takes it.
LEMMA EscapedRuns ==
  ASSUME NEW word \in Seq(Chars), NEW special, NEW N, N = Len(word)
  PROVE  \E h \in [0..N -> Texts] :
           /\ h[0] = NoText
           /\ \A i \in 1..N : h[i] = More(h[i - 1], word[i], special)
           /\ Escaped(word, special) = h[N]
<1> DEFINE step == [i \in 1..N |-> [x \in Texts |-> More(x, word[i], special)]]
<1>1. N \in Nat
  BY LenProperties
<1>2. \A i \in 1..N : word[i] \in Chars
  BY ElementOfSeq
<1>3. step \in [1..N -> [Texts -> Texts]]
  BY <1>2, MoreIn
<1>4. \A i \in 1..N, x \in Texts : step[i][x] = More(x, word[i], special)
  OBVIOUS
<1> HIDE DEF step
<1>5. PICK h \in [0..N -> Texts] : h[0] = NoText /\ \A i \in 1..N : h[i] = step[i][h[i - 1]]
  BY <1>1, <1>3, StepsJoin
<1>6. \A i \in 1..N : h[i] = More(h[i - 1], word[i], special)
  BY <1>1, <1>4, <1>5
<1>7. Escaped(word, special) = h[N]
  BY <1>5, <1>6, EscapedIs
<1> QED BY <1>5, <1>6, <1>7

\* An escaped word grows with the word.
LEMMA EscapedEmpty == ASSUME NEW special PROVE Escaped(<<>>, special) = <<>>
<1> DEFINE h == [i \in 0..0 |-> NoText]
<1>1. <<>> \in Seq(Chars) /\ 0 = Len(<<>>)
  BY EmptySeq
<1>2. h \in [0..0 -> Texts] /\ h[0] = NoText
  BY NoTextIn
<1>3. \A i \in 1..0 : FALSE
  OBVIOUS
<1> HIDE DEF h
<1>4. Escaped(<<>>, special) = h[0]
  BY <1>1, <1>2, <1>3, EscapedIs
<1> QED BY <1>2, <1>4 DEF NoText

LEMMA EscapedAppend ==
  ASSUME NEW s \in Seq(Chars), NEW ch \in Chars, NEW special
  PROVE  /\ Escaped(s, special) \in Texts
         /\ Escaped(Append(s, ch), special) = More(Escaped(s, special), ch, special)
<1>1. PICK n \in Nat : n = Len(s)
  BY LenProperties
<1>2. PICK g \in [0..n -> Texts] :
        /\ g[0] = NoText
        /\ \A i \in 1..n : g[i] = More(g[i - 1], s[i], special)
        /\ Escaped(s, special) = g[n]
  BY <1>1, EscapedRuns
<1>3. Escaped(s, special) \in Texts
  BY <1>2
<1> DEFINE v == Append(s, ch)
           h == [i \in 0..n + 1 |-> IF i = n + 1 THEN More(g[n], ch, special) ELSE g[i]]
<1>4. v \in Seq(Chars) /\ Len(v) = n + 1 /\ (\A i \in 1..n : v[i] = s[i]) /\ v[n + 1] = ch
  BY <1>1, AppendProperties
<1> HIDE DEF v
<1>5. h \in [0..n + 1 -> Texts]
  <2>1. More(g[n], ch, special) \in Texts
    BY MoreIn
  <2> QED BY <2>1
<1>6. h[0] = NoText /\ h[n + 1] = More(g[n], ch, special) /\ \A i \in 0..n : h[i] = g[i]
  BY <1>2
<1> HIDE DEF h
<1>7. ASSUME NEW i \in 1..n + 1 PROVE h[i] = More(h[i - 1], v[i], special)
  <2>1. CASE i = n + 1
    BY <1>4, <1>6, <2>1
  <2>2. CASE i # n + 1
    <3>1. i \in 1..n /\ i - 1 \in 0..n /\ i \in 0..n
      BY <2>2
    <3> QED BY <1>2, <1>4, <1>6, <3>1
  <2> QED BY <2>1, <2>2
<1>8. Escaped(v, special) = h[n + 1]
  BY <1>4, <1>5, <1>6, <1>7, EscapedIs
<1> QED BY <1>2, <1>3, <1>6, <1>8 DEF v

\* The loop over one character and over two.
LEMMA LoopOne ==
  ASSUME NEW st \in Steady, NEW a \in Chars
  PROVE  <<a>> \in Seq(Chars) /\ Loop(st, <<a>>) = Scan(st, a)
<1>1. <<a>> = Append(<<>>, a)
  OBVIOUS
<1>2. <<>> \in Seq(Chars)
  BY EmptySeq
<1>3. Loop(st, Append(<<>>, a)) = Scan(Loop(st, <<>>), a)
  BY <1>2, LoopAppend
<1>4. Loop(st, <<>>) = st
  BY LoopEmpty
<1> QED BY <1>1, <1>3, <1>4

LEMMA LoopTwo ==
  ASSUME NEW st \in Steady, NEW a \in Chars, NEW b \in Chars
  PROVE  Loop(st, <<a, b>>) = Scan(Scan(st, a), b)
<1>1. <<a, b>> = Append(<<a>>, b)
  OBVIOUS
<1>2. <<a>> \in Seq(Chars) /\ Loop(st, <<a>>) = Scan(st, a)
  BY LoopOne
<1>3. Loop(st, Append(<<a>>, b)) = Scan(Loop(st, <<a>>), b)
  BY <1>2, LoopAppend
<1> QED BY <1>1, <1>2, <1>3, Zenon

\* When the parts are those of a state of the loop.
LEMMA OfSteady ==
  ASSUME NEW f \in Seq(Seq(Chars)), NEW c \in Seq(Chars), NEW i \in BOOLEAN,
         NEW q \in {NoQuote, SingleQuote, DoubleQuote}, NEW e \in BOOLEAN, i = No => c = <<>>
  PROVE  Of(f, c, i, q, e) \in Steady
<1>1. PICK st : st = Of(f, c, i, q, e)
  OBVIOUS
<1>2. st \in State
  BY <1>1 DEF Of, State
<1>3. st.cur = c /\ st.inField = i
  BY <1>1, IsOf
<1>4. st \in Steady
  BY <1>2, <1>3 DEF Steady, No
<1> QED BY <1>1, <1>4, Zenon

\* A character that is escaped where it has to be adds itself.
LEMMA EscapeAdds ==
  ASSUME NEW f \in Seq(Seq(Chars)), NEW c \in Seq(Chars), NEW i \in BOOLEAN, i = No => c = <<>>,
         NEW q \in {NoQuote, DoubleQuote}, NEW special, NEW ch \in Chars,
         ch \in special \/ (q = DoubleQuote /\ ch \notin {DoubleQuote, Backslash})
  PROVE  Loop(Of(f, c, i, q, No), Escape(ch, special)) = Of(f, Append(c, ch), Yes, q, No)
<1>1. q # SingleQuote /\ Backslash \in Chars
  BY Signs
<1>2. Of(f, c, i, q, No) \in Steady
  BY OfSteady, TwoValues
<1>3. Scan(Of(f, c, i, q, No), Backslash) = Of(f, c, Yes, q, Yes)
  BY <1>1, ScanBackslash
<1>4. Scan(Of(f, c, Yes, q, Yes), ch) = Of(f, Append(c, ch), Yes, q, No)
  BY ScanEscaped
<1>5. ASSUME ch \in special PROVE Loop(Of(f, c, i, q, No), Escape(ch, special)) =
         Of(f, Append(c, ch), Yes, q, No)
  <2>1. Escape(ch, special) = <<Backslash, ch>>
    BY <1>5 DEF Escape
  <2>2. Loop(Of(f, c, i, q, No), <<Backslash, ch>>) = Scan(Scan(Of(f, c, i, q, No), Backslash), ch)
    BY <1>1, <1>2, LoopTwo
  <2> QED BY <1>3, <1>4, <2>1, <2>2, Zenon
<1>6. ASSUME ch \notin special PROVE Loop(Of(f, c, i, q, No), Escape(ch, special)) =
         Of(f, Append(c, ch), Yes, q, No)
  <2>1. Escape(ch, special) = <<ch>>
    BY <1>6 DEF Escape
  <2>2. Loop(Of(f, c, i, q, No), <<ch>>) = Scan(Of(f, c, i, q, No), ch)
    BY <1>2, LoopOne
  <2>3. q \in {SingleQuote, DoubleQuote} /\ ch # q /\ ~(ch = Backslash /\ q # SingleQuote)
    BY <1>6
  <2>4. Scan(Of(f, c, i, q, No), ch) = Of(f, Append(c, ch), Yes, q, No)
    BY <2>3, ScanQuoted
  <2> QED BY <2>1, <2>2, <2>4, Zenon
<1> QED BY <1>5, <1>6

\* What is escaped of a word adds the word.
LEMMA LoopEscaped ==
  ASSUME NEW f \in Seq(Seq(Chars)), NEW i \in BOOLEAN, NEW q \in {NoQuote, DoubleQuote},
         NEW special, NEW w \in Seq(Chars),
         Chars \subseteq special \/ (q = DoubleQuote /\ special = {DoubleQuote, Backslash})
  PROVE  \E j \in BOOLEAN :
           /\ i = Yes \/ w # <<>> => j = Yes
           /\ j = No => w = <<>>
           /\ Loop(Of(f, <<>>, i, q, No), Escaped(w, special)) = Of(f, w, j, q, No)
<1> DEFINE st == Of(f, <<>>, i, q, No)
           T == {s \in Seq(Chars) : \E j \in BOOLEAN :
                   /\ i = Yes \/ s # <<>> => j = Yes
                   /\ j = No => s = <<>>
                   /\ Loop(st, Escaped(s, special)) = Of(f, s, j, q, No)}
<1>0. st \in Steady
  <2>1. <<>> \in Seq(Chars)
    BY EmptySeq
  <2> QED BY <2>1, OfSteady, TwoValues
<1>1. <<>> \in T
  <2>1. <<>> \in Seq(Chars)
    BY EmptySeq
  <2>2. Escaped(<<>>, special) = <<>> /\ Loop(st, <<>>) = st
    BY <1>0, EscapedEmpty, LoopEmpty
  <2>3. Loop(st, Escaped(<<>>, special)) = Of(f, <<>>, i, q, No)
    BY <2>2, Zenon
  <2> QED BY <2>1, <2>3, Zenon
<1>2. ASSUME NEW s \in Seq(Chars), NEW c \in Chars, s \in T PROVE Append(s, c) \in T
  <2>1. PICK j \in BOOLEAN : (j = No => s = <<>>) /\ Loop(st, Escaped(s, special)) =
           Of(f, s, j, q, No)
    BY <1>2, Zenon
  <2>2. Escaped(s, special) \in Seq(Chars)
    BY EscapedAppend DEF Texts
  <2>3. Escaped(Append(s, c), special) = Escaped(s, special) \o Escape(c, special)
    BY EscapedAppend, Zenon DEF More
  <2>4. Escape(c, special) \in Seq(Chars)
    BY EscapeIn
  <2>5. Loop(st, Escaped(s, special) \o Escape(c, special)) =
           Loop(Loop(st, Escaped(s, special)), Escape(c, special))
    BY <1>0, <2>2, <2>4, LoopJoin
  <2>6. c \in special \/ (q = DoubleQuote /\ c \notin {DoubleQuote, Backslash})
    <3>1. CASE Chars \subseteq special
      BY <3>1, Zenon
    <3>2. CASE q = DoubleQuote /\ special = {DoubleQuote, Backslash}
      BY <3>2, Zenon
    <3> QED BY <3>1, <3>2, Zenon
  <2>7. Loop(Of(f, s, j, q, No), Escape(c, special)) = Of(f, Append(s, c), Yes, q, No)
    BY <2>1, <2>6, EscapeAdds
  <2>8. Loop(st, Escaped(Append(s, c), special)) = Of(f, Append(s, c), Yes, q, No)
    BY <2>1, <2>3, <2>5, <2>7, Zenon
  <2>9. Append(s, c) \in Seq(Chars)
    BY AppendProperties
  <2> QED BY <2>8, <2>9, TwoValues, Zenon
<1> HIDE DEF T
<1>3. w \in T
  BY <1>1, <1>2, OverSeq
<1> QED BY <1>3, Zenon DEF T

\* Between single quotes a word adds itself.
LEMMA LoopSingle ==
  ASSUME NEW f \in Seq(Seq(Chars)), NEW w \in Seq(Chars), SingleQuote \notin Range(w)
  PROVE  Loop(Of(f, <<>>, Yes, SingleQuote, No), w) = Of(f, w, Yes, SingleQuote, No)
<1> DEFINE st == Of(f, <<>>, Yes, SingleQuote, No)
           None(s) == \A k \in 1..Len(s) : s[k] # SingleQuote
           T == {s \in Seq(Chars) : None(s) => Loop(st, s) = Of(f, s, Yes, SingleQuote, No)}
<1>0. st \in Steady
  <2>1. <<>> \in Seq(Chars)
    BY EmptySeq
  <2> QED BY <2>1, OfSteady, TwoValues
<1>1. <<>> \in T
  <2>1. <<>> \in Seq(Chars)
    BY EmptySeq
  <2>2. Loop(st, <<>>) = st
    BY <1>0, LoopEmpty
  <2> QED BY <2>1, <2>2, Zenon
<1>2. ASSUME NEW s \in Seq(Chars), NEW c \in Chars, s \in T PROVE Append(s, c) \in T
  <2>1. Append(s, c) \in Seq(Chars)
    BY AppendProperties
  <2>2. ASSUME None(Append(s, c)) PROVE None(s) /\ c # SingleQuote
    <3>1. PICK n \in Nat : n = Len(s)
      BY LenProperties
    <3> DEFINE v == Append(s, c)
    <3>2. Len(v) = n + 1 /\ (\A k \in 1..n : v[k] = s[k]) /\ v[n + 1] = c
      BY <3>1, AppendProperties
    <3>3. \A k \in 1..Len(v) : v[k] # SingleQuote
      BY <2>2
    <3> HIDE DEF v
    <3> QED BY <3>1, <3>2, <3>3
  <2>3. Loop(st, Append(s, c)) = Scan(Loop(st, s), c)
    BY <1>0, LoopAppend
  <2>4. ASSUME c # SingleQuote
        PROVE  Scan(Of(f, s, Yes, SingleQuote, No), c) = Of(f, Append(s, c), Yes, SingleQuote, No)
    BY <2>4, ScanQuoted
  <2> QED BY <1>2, <2>1, <2>2, <2>3, <2>4, Zenon
<1>3. None(w)
  BY ElementOfSeq DEF Range
<1> HIDE DEF T
<1>4. w \in T
  BY <1>1, <1>2, OverSeq
<1> HIDE DEF None
<1> QED BY <1>3, <1>4, Zenon DEF T

\* A word in quotes, or escaped, leaves the loop with just that word.
LEMMA LoopClosing ==
  ASSUME NEW w \in Seq(Chars), NEW m \in Seq(Chars), NEW q \in {SingleQuote, DoubleQuote},
         NEW f \in Seq(Seq(Chars)),
         Loop(Of(f, <<>>, Yes, q, No), m) = Of(f, w, Yes, q, No)
  PROVE  Loop(Of(f, <<>>, No, NoQuote, No), <<q>> \o m \o <<q>>) = Of(f, w, Yes, NoQuote, No)
<1> DEFINE st == Of(f, <<>>, No, NoQuote, No)
<1>1. st \in Steady
  <2>1. <<>> \in Seq(Chars)
    BY EmptySeq
  <2> QED BY <2>1, OfSteady, TwoValues
<1>2. q \in Chars
  BY Signs
<1>3. <<q>> \in Seq(Chars) /\ Loop(st, <<q>>) = Scan(st, q)
  BY <1>1, <1>2, LoopOne
<1>4. Scan(st, q) = Of(f, <<>>, Yes, q, No)
  BY ScanOpening
<1>5. Loop(st, <<q>> \o m) = Loop(Loop(st, <<q>>), m) /\ <<q>> \o m \in Seq(Chars)
  BY <1>1, <1>3, LoopJoin, ConcatProperties
<1>6. Loop(st, (<<q>> \o m) \o <<q>>) = Loop(Loop(st, <<q>> \o m), <<q>>)
  BY <1>1, <1>3, <1>5, LoopJoin
<1>7. Loop(st, <<q>> \o m) = Of(f, w, Yes, q, No)
  BY <1>3, <1>4, <1>5, Zenon
<1>8. Of(f, w, Yes, q, No) \in Steady
  BY OfSteady, TwoValues
<1>9. Loop(Of(f, w, Yes, q, No), <<q>>) = Scan(Of(f, w, Yes, q, No), q)
  BY <1>2, <1>8, LoopOne
<1>10. Scan(Of(f, w, Yes, q, No), q) = Of(f, w, Yes, NoQuote, No)
  BY ScanClosing
<1> QED BY <1>6, <1>7, <1>9, <1>10, Zenon

\* However a word is quoted, the loop ends with it and outside quotes.
LEMMA QuotedLoop ==
  ASSUME NEW w \in Seq(Chars), NEW t \in Quoted(w), NEW f \in Seq(Seq(Chars))
  PROVE  t \in Seq(Chars) /\ Loop(Of(f, <<>>, No, NoQuote, No), t) = Of(f, w, Yes, NoQuote, No)
<1>0. \A special : Escaped(w, special) \in Seq(Chars)
  <2>1. Backslash \in Chars
    BY Signs
  <2> QED BY <2>1, EscapedAppend DEF Texts
<1>1. <<SingleQuote>> \in Seq(Chars) /\ <<DoubleQuote>> \in Seq(Chars)
  BY Signs
<1>2. CASE t = <<DoubleQuote>> \o Escaped(w, {DoubleQuote, Backslash}) \o <<DoubleQuote>>
  <2> DEFINE m == Escaped(w, {DoubleQuote, Backslash})
  <2>1. m \in Seq(Chars)
    BY <1>0
  <2>2. Loop(Of(f, <<>>, Yes, DoubleQuote, No), m) = Of(f, w, Yes, DoubleQuote, No)
    BY LoopEscaped, TwoValues
  <2> HIDE DEF m
  <2>3. Loop(Of(f, <<>>, No, NoQuote, No), <<DoubleQuote>> \o m \o <<DoubleQuote>>) =
           Of(f, w, Yes, NoQuote, No)
    BY <2>1, <2>2, LoopClosing
  <2>4. <<DoubleQuote>> \o m \o <<DoubleQuote>> \in Seq(Chars)
    BY <1>1, <2>1, ConcatProperties
  <2> QED BY <1>2, <2>3, <2>4, Zenon DEF m
<1>3. CASE w # <<>> /\ t = Escaped(w, Chars)
  <2>1. \E j \in BOOLEAN : j = Yes /\ Loop(Of(f, <<>>, No, NoQuote, No), Escaped(w, Chars)) =
           Of(f, w, j, NoQuote, No)
    <3>1. PICK i \in BOOLEAN : i = No
      BY TwoValues, Zenon
    <3>2. PICK q \in {NoQuote, DoubleQuote} : q = NoQuote
      OBVIOUS
    <3>3. PICK special : special = Chars
      OBVIOUS
    <3>4. PICK j \in BOOLEAN :
            /\ w # <<>> => j = Yes
            /\ Loop(Of(f, <<>>, i, q, No), Escaped(w, special)) = Of(f, w, j, q, No)
      BY <3>3, LoopEscaped
    <3> QED BY <1>3, <3>1, <3>2, <3>3, <3>4, Zenon
  <2> QED BY <1>0, <1>3, <2>1, Zenon
<1>4. CASE SingleQuote \notin Range(w) /\ t = <<SingleQuote>> \o w \o <<SingleQuote>>
  <2>1. Loop(Of(f, <<>>, Yes, SingleQuote, No), w) = Of(f, w, Yes, SingleQuote, No)
    BY <1>4, LoopSingle
  <2>2. Loop(Of(f, <<>>, No, NoQuote, No), <<SingleQuote>> \o w \o <<SingleQuote>>) =
           Of(f, w, Yes, NoQuote, No)
    BY <2>1, LoopClosing
  <2>3. <<SingleQuote>> \o w \o <<SingleQuote>> \in Seq(Chars)
    BY <1>1, ConcatProperties
  <2> QED BY <1>4, <2>2, <2>3, Zenon
<1>5. \/ t = <<DoubleQuote>> \o Escaped(w, {DoubleQuote, Backslash}) \o <<DoubleQuote>>
      \/ w # <<>> /\ t = Escaped(w, Chars)
      \/ SingleQuote \notin Range(w) /\ t = <<SingleQuote>> \o w \o <<SingleQuote>>
  BY Zenon DEF Quoted
<1> QED BY <1>2, <1>3, <1>4, <1>5, Zenon

\* A word of any length, quoted in any of the three ways, is split off as that word
\* alone (alias.go 204-254).
THEOREM QuotedArrives ==
  ASSUME NEW w \in Seq(Chars), NEW t \in Quoted(w)
  PROVE  t \in Seq(Chars) /\ Splits(t) /\ SplitCommandLine(t) = <<w>>
<1>1. PICK f \in Seq(Seq(Chars)) : f = <<>>
  BY EmptySeq
<1>2. t \in Seq(Chars) /\ Loop(Of(f, <<>>, No, NoQuote, No), t) = Of(f, w, Yes, NoQuote, No)
  BY QuotedLoop
<1>3. PICK st : st = Of(f, w, Yes, NoQuote, No)
  OBVIOUS
<1>4. Loop(State0, t) = st
  BY <1>1, <1>2, <1>3, StartOf, Zenon
<1>5. st.quote = NoQuote /\ st.escaped = No
  BY <1>3, IsOf
<1>6. Splits(t)
  <2>1. Complete(st)
    BY <1>5 DEF Complete, No
  <2> QED BY <1>4, <2>1, Zenon DEF Splits
<1>7. Flush(Of(f, w, Yes, NoQuote, No)) = Of(Append(f, w), <<>>, No, NoQuote, No)
  <2>1. PICK i \in BOOLEAN : i = Yes
    BY TwoValues, Zenon
  <2>2. Flush(Of(f, w, i, NoQuote, No)) = IF i = Yes
           THEN Of(Append(f, w), <<>>, No, NoQuote, No) ELSE Of(f, w, i, NoQuote, No)
    BY FlushOf
  <2> QED BY <2>1, <2>2, Zenon
<1>8. Flush(st).fields = Append(f, w)
  <2>1. Flush(st) = Of(Append(f, w), <<>>, No, NoQuote, No)
    BY <1>3, <1>7, Zenon
  <2>2. \A g, c, i : Flush(st) = Of(g, c, i, NoQuote, No) => Flush(st).fields = g
    BY IsOf
  <2> QED BY <2>1, <2>2, Zenon
<1>9. Append(f, w) = <<w>>
  BY <1>1
<1>10. SplitCommandLine(t) = <<w>>
  BY <1>4, <1>6, <1>8, <1>9, Zenon DEF SplitCommandLine
<1> QED BY <1>2, <1>6, <1>10

\* Two elements, one appended to the other.
LEMMA PairIs ==
  ASSUME NEW S, NEW v \in S, NEW w \in S PROVE Append(<<v>>, w) = <<v, w>>
<1>1. PICK s : s = <<v>>
  OBVIOUS
<1>2. s \in Seq(S) /\ Len(s) = 1 /\ s[1] = v
  BY <1>1
<1>3. PICK x : x = Append(s, w)
  OBVIOUS
<1>8. /\ Append(s, w) \in Seq(S) /\ Len(Append(s, w)) = Len(s) + 1
      /\ \A i \in 1..Len(s) : Append(s, w)[i] = s[i]
      /\ Append(s, w)[Len(s) + 1] = w
  BY <1>2, AppendProperties
<1>4. x \in Seq(S) /\ Len(x) = 2 /\ x[1] = v /\ x[2] = w
  <2>1. x \in Seq(S) /\ Len(x) = Len(s) + 1 /\ (\A i \in 1..Len(s) : x[i] = s[i]) /\ x[Len(s) + 1] =
           w
    BY <1>3, <1>8, Zenon
  <2>2. Len(s) + 1 = 2 /\ 1 \in 1..Len(s)
    BY <1>2
  <2>3. x[1] = s[1] /\ Len(x) = 2
    BY <2>1, <2>2, Zenon
  <2>4. x[2] = w
    BY <2>1, <2>2, Zenon
  <2> QED BY <1>2, <2>1, <2>3, <2>4, Zenon
<1>5. PICK y : y = <<v, w>>
  OBVIOUS
<1>6. y \in Seq(S) /\ Len(y) = 2 /\ y[1] = v /\ y[2] = w
  BY <1>5
<1>7. x = y
  BY <1>4, <1>6, SeqEqual
<1> QED BY <1>1, <1>3, <1>5, <1>7, Zenon

\* A short text is a text.
LEMMA UpToIn ==
  ASSUME NEW n, NEW S, NEW w \in UpToLength(n, S) PROVE w \in Seq(S)
<1>1. PICK k \in 0..n : w \in [1..k -> S]
  BY DEF UpToLength
<1>2. k \in Nat
  BY <1>1
<1> QED BY <1>1, <1>2, SeqDef

\* SplitsBack says of short words and texts what holds of all.
LEMMA SplitsBackHolds == SplitsBack
<1>1. ASSUME NEW v \in UpToLength(WordLength, Chars), NEW w \in UpToLength(WordLength, Chars),
             NEW t \in Quoted(v), NEW u \in Quoted(w)
      PROVE  SplitCommandLine(t \o <<SpaceChar>> \o u) = <<v, w>>
  <2>1. v \in Seq(Chars) /\ w \in Seq(Chars)
    BY UpToIn
  <2>2. t \in Seq(Chars) /\ Splits(t) /\ SplitCommandLine(t) = <<v>>
    BY <2>1, QuotedArrives
  <2>3. u \in Seq(Chars) /\ Splits(u) /\ SplitCommandLine(u) = <<w>>
    BY <2>1, QuotedArrives
  <2>4. SplitCommandLine(t \o <<SpaceChar>> \o u) = SplitCommandLine(t) \o SplitCommandLine(u)
    BY <2>2, <2>3, SplitsAtSpaces
  <2>5. <<v>> \o <<w>> = <<v, w>>
    <3>1. Append(<<v>>, w) = <<v>> \o <<w>>
      BY <2>1, AppendIsConcat
    <3>2. Append(<<v>>, w) = <<v, w>>
      BY <2>1, PairIs
    <3> QED BY <3>1, <3>2, Zenon
  <2> QED BY <2>2, <2>3, <2>4, <2>5, Zenon
<1>2. ASSUME NEW t \in UpToLength(TextLength, Chars), NEW u \in UpToLength(TextLength, Chars),
             Splits(t), Splits(u)
      PROVE  SplitCommandLine(t \o <<SpaceChar>> \o u) = SplitCommandLine(t) \o SplitCommandLine(u)
  <2>1. t \in Seq(Chars) /\ u \in Seq(Chars)
    BY UpToIn
  <2> QED BY <1>2, <2>1, SplitsAtSpaces
<1> QED BY <1>1, <1>2, Zenon DEF SplitsBack

\* What an alias expands to is split into the words that were quoted, in every state
\* that the property speaks of (alias.go 204-254).
THEOREM SplitsTruly == Spec => []SplitsIntoWords
<1>1. SplitsIntoWords
  BY SplitsBackHolds, Zenon DEF SplitsIntoWords
<1> QED BY <1>1, PTL
=============================================================================
