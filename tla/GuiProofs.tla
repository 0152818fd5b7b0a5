----------------------------- MODULE GuiProofs -----------------------------
(***************************************************************************)
(* PaintedWhole, NoUseAfterDestroy and SessionConfig of Gui, for all       *)
(* command lines, sizes and settings.  None is inductive: what is drawn is *)
(* whole because the decode thread holds the lock whenever the preview     *)
(* buffer is not (Locked, Whole), WinGui is freed in peace because main    *)
(* only gets there past the join (Threads), and a source is configured as  *)
(* asked because the options are right after every word (ParseInv) and the *)
(* copy made for a source outlives it (ConfigInv).                         *)
(***************************************************************************)
EXTENDS Gui, TLAPS, WellFoundedInduction, FiniteSetTheorems

Images == [buf : Nat, pixels : Nat, size : Nat]

Types == /\ frame \in Images /\ paint \in Images /\ incoming \in Nat
         /\ running \in BOOLEAN /\ thread_active \in BOOLEAN
         /\ then \in {"none", "loop", "quit"}
         /\ cpc \in {"none", "idle", "copy", "leave"}

\* The decode thread has the lock from FrameEnter to FrameLeave.  The others
\* enter and leave it in one step of the model.
Locked == /\ lock \in {"none", "decode"}
          /\ lock = "decode" <=> cpc \in {"copy", "leave"}

\* The preview buffer holds the picture it claims to hold, unless locked.
Whole == /\ frame.buf >= frame.size
         /\ cpc \in {"copy", "leave"} => frame.buf >= incoming
         /\ cpc = "leave" => frame.pixels = incoming
         /\ cpc \in {"none", "idle"} => frame.pixels = frame.size

\* Who is alive when: a source belongs to the pipeline thread or to the
\* console, and the pipeline thread to a window that waits for it.
Threads == /\ running = thread_active
           /\ ~thread_active => ppc \in {"none", "done"}
           /\ cpc # "none" => ppc \in {"started", "wait"} \/ mpc = "console_up"
           /\ mpc = "console_up" => ppc = "none"
           /\ thread_active => mpc \in {"loop", "dialog", "join"}
           /\ mpc = "join" => then \in {"loop", "quit"}
           /\ mpc \in {"args", "console", "console_up"} => ppc = "none"
           /\ freed => mpc = "exit"

IInv == Types /\ Locked /\ Whole /\ PaintedWhole /\ Threads

-----------------------------------------------------------------------------
LEMMA InitIInv == Init => IInv
<1> SUFFICES ASSUME Init PROVE IInv
  OBVIOUS
<1> USE DEF Init, NoImage
<1>1. Types BY DEF Types, Images
<1>2. Locked BY DEF Locked
<1>3. Whole /\ PaintedWhole BY DEF Whole, PaintedWhole
<1>4. Threads BY DEF Threads
<1> QED BY <1>1, <1>2, <1>3, <1>4 DEF IInv

\* Steps that leave the pictures, the decode thread and the lock alone.
LEMMA PicturesKept ==
  ASSUME IInv, UNCHANGED <<frame, paint, incoming, lock, cpc>>
  PROVE /\ frame' \in Images /\ paint' \in Images /\ incoming' \in Nat
        /\ cpc' \in {"none", "idle", "copy", "leave"}
        /\ Locked' /\ Whole' /\ PaintedWhole'
BY DEF IInv, Types, Locked, Whole, PaintedWhole

\* The thread of the source appears or goes; it does not hold the lock.
LEMMA SourceComesOrGoes ==
  ASSUME IInv, UNCHANGED <<frame, paint, incoming, lock>>,
         cpc \in {"none", "idle"}, cpc' \in {"none", "idle"}
  PROVE /\ frame' \in Images /\ paint' \in Images /\ incoming' \in Nat
        /\ Locked' /\ Whole' /\ PaintedWhole'
BY DEF IInv, Types, Locked, Whole, PaintedWhole

\* Steps of main and of the user.
LEMMA MainIInv == ASSUME IInv, Main \/ User PROVE IInv'
<1> USE DEF argVars, winVars, imgVars, pipeVars, srcVars, MGoto, WKeeps, Looping
<1>1. CASE ParseArg
  <2>1. UNCHANGED <<winVars, imgVars, pipeVars, srcVars, running, lock>>
    BY <1>1 DEF ParseArg
  <2> QED BY <2>1, PicturesKept DEF IInv, Types, Threads
<1>2. CASE Parsed
  BY <1>2, PicturesKept DEF Parsed, IInv, Types, Threads
<1>3. CASE ConsoleStart
  <2>1. cpc = "none" BY <1>3 DEF ConsoleStart, IInv, Threads
  <2>2. cpc' \in {"none", "idle"} /\ UNCHANGED <<frame, paint, incoming, lock>>
    BY <1>3, <2>1 DEF ConsoleStart, SourceStart
  <2> QED BY <1>3, <2>1, <2>2, SourceComesOrGoes DEF ConsoleStart, SourceStart, IInv, Types, Threads
<1>4. CASE ConsoleStop
  BY <1>4, SourceComesOrGoes DEF ConsoleStop, SourceStop, IInv, Types, Threads
<1>5. CASE EndStop
  <2>1. lock = "none" BY <1>5 DEF EndStop, Joined, IInv, Locked
  <2> QED BY <1>5, <2>1, PicturesKept DEF EndStop, Joined, IInv, Types, Threads
<1>6. CASE Quit
  BY <1>6, PicturesKept DEF Quit, IInv, Types, Threads
<1>7. CASE Finish
  BY <1>7, PicturesKept DEF Finish, IInv, Types, Threads
<1>8. CASE Connect
  BY <1>8, PicturesKept DEF Connect, IInv, Types, Threads
<1>9. CASE ConnectFail
  BY <1>9, PicturesKept DEF ConnectFail, IInv, Types, Threads
<1>10. CASE Disconnect
  BY <1>10, PicturesKept DEF Disconnect, BeginStop, IInv, Types, Threads
<1>11. CASE Close
  BY <1>11, PicturesKept DEF Close, BeginStop, IInv, Types, Threads
<1>12. CASE OpenSettings
  BY <1>12, PicturesKept DEF OpenSettings, IInv, Types, Threads
<1>13. CASE CloseSettings
  BY <1>13, PicturesKept DEF CloseSettings, IInv, Types, Threads
<1>14. CASE Signal
  BY <1>14, PicturesKept DEF Signal, IInv, Types, Threads
<1> QED BY <1>1, <1>2, <1>3, <1>4, <1>5, <1>6, <1>7, <1>8, <1>9, <1>10, <1>11, <1>12,
           <1>13, <1>14 DEF Main, User

\* Steps of the pipeline thread.
LEMMA PipelineIInv == ASSUME IInv, Pipeline PROVE IInv'
<1> USE DEF argVars, winVars, imgVars, srcVars
<1>1. CASE PipelineStart
  <2>1. cpc = "none" BY <1>1 DEF PipelineStart, IInv, Threads
  <2>2. cpc' \in {"none", "idle"} /\ UNCHANGED <<frame, paint, incoming, lock>>
    BY <1>1, <2>1 DEF PipelineStart, SourceStart
  <2> QED BY <1>1, <2>1, <2>2, SourceComesOrGoes DEF PipelineStart, SourceStart, IInv, Types, Threads
<1>2. CASE PipelineStop
  BY <1>2, SourceComesOrGoes DEF PipelineStop, SourceStop, IInv, Types, Threads
<1>3. ASSUME NEW from, NEW to, NEW text, gui_set_status(from, to, text),
             \/ from \notin {"none", "done"} /\ cpc = "none"
             \/ from = "started" /\ to = "wait"
      PROVE IInv'
  BY <1>3, PicturesKept DEF gui_set_status, IInv, Types, Threads
<1>4. ppc \in {"connecting", "start_failed", "stopped"} => cpc = "none"
  BY DEF IInv, Threads
<1> QED BY <1>1, <1>2, <1>3, <1>4 DEF Pipeline, gui_set_status

\* Steps of the decode thread, and WM_PAINT.
LEMMA PictureIInv == ASSUME IInv, FrameEnter \/ FrameCopy \/ FrameLeave \/ Paint PROVE IInv'
<1> USE GuiSizes DEF argVars, winVars, pipeVars, srcVars
<1>1. CASE FrameEnter
  BY <1>1 DEF FrameEnter, IInv, Types, Images, Locked, Whole, PaintedWhole, Threads
<1>2. CASE FrameCopy
  BY <1>2 DEF FrameCopy, IInv, Types, Images, Locked, Whole, PaintedWhole, Threads
<1>3. CASE FrameLeave
  BY <1>3 DEF FrameLeave, IInv, Types, Images, Locked, Whole, PaintedWhole, Threads
<1>4. CASE Paint
  <2>1. lock = "none" /\ cpc \in {"none", "idle"}
    BY <1>4 DEF Paint, PaintEnters, IInv, Types, Locked
  <2> QED BY <1>4, <2>1 DEF Paint, IInv, Types, Images, Locked, Whole, PaintedWhole, Threads
<1> QED BY <1>1, <1>2, <1>3, <1>4

LEMMA NextIInv == IInv /\ [Next]_vars => IInv'
<1> SUFFICES ASSUME IInv, [Next]_vars PROVE IInv'
  OBVIOUS
<1>1. CASE UNCHANGED vars
  BY <1>1, PicturesKept DEF vars, argVars, winVars, imgVars, pipeVars, srcVars, IInv, Types, Threads
<1> QED BY <1>1, MainIInv, PipelineIInv, PictureIInv DEF Next, Ended

LEMMA Invariant == Spec => []IInv
BY InitIInv, NextIInv, PTL DEF Spec

-----------------------------------------------------------------------------
(* paint_preview draws one whole picture, whatever gui_set_frame of the    *)
(* decode thread does meanwhile, for pictures of any sizes.                *)
THEOREM AlwaysPaintedWhole == Spec => []PaintedWhole
<1>1. IInv => PaintedWhole BY DEF IInv
<1> QED BY <1>1, Invariant, PTL

(* gui_destroy runs after the pipeline thread and the decode thread ended: *)
(* request_stop joined the one, droidcam_source_stop the other.            *)
THEOREM NeverUsedAfterDestroy == Spec => []NoUseAfterDestroy
<1>1. IInv => NoUseAfterDestroy BY DEF IInv, Types, Threads, NoUseAfterDestroy
<1> QED BY <1>1, Invariant, PTL

-----------------------------------------------------------------------------
(* The words of the command line: which of them are values of options.     *)

\* The words j to k - 1 are options with a value, one after the other, and no
\* such option is before them.
Run(j, k) == /\ \A m \in j..(k - 1) : argv[m] \in ValueOptions
             /\ j > 1 => argv[j - 1] \notin ValueOptions

\* Every word ends such a run, perhaps an empty one.
LEMMA RunExists == ASSUME NEW k \in Nat \ {0} PROVE \E j \in 1..k : Run(j, k)
<1> DEFINE S == {j \in 1..k : \A m \in j..(k - 1) : argv[m] \in ValueOptions}
<1>1. k \in S OBVIOUS
<1>2. PICK j \in S : \A l \in S : ~(l < j)
  <2>1. S \subseteq Nat OBVIOUS
  <2>2. IsWellFoundedOn(OpToRel(<, Nat), Nat)
    BY NatLessThanWellFounded
  <2>3. \E x \in S : \A y \in S : ~(<<y, x>> \in OpToRel(<, Nat))
    BY <1>1, <2>1, <2>2, WFMin, Zenon
  <2>4. PICK x \in S : \A y \in S : ~(<<y, x>> \in OpToRel(<, Nat))
    BY <2>3
  <2>5. \A y \in S : ~(y < x)
    BY <2>1, <2>4 DEF OpToRel
  <2> QED BY <2>5
<1>3. ASSUME j > 1, argv[j - 1] \in ValueOptions PROVE FALSE
  <2>1. j - 1 \in 1..k /\ \A m \in (j - 1)..(k - 1) : m = j - 1 \/ m \in j..(k - 1)
    BY <1>3
  <2>2. j - 1 \in S BY <1>3, <2>1
  <2> QED BY <1>2, <2>2
<1> QED BY <1>2, <1>3 DEF Run

\* It ends only one.
LEMMA RunUnique ==
  ASSUME NEW k \in Nat, NEW j \in 1..k, NEW l \in 1..k, Run(j, k), Run(l, k)
  PROVE j = l
<1>1. ASSUME NEW a \in 1..k, NEW b \in 1..k, Run(a, k), Run(b, k), a < b PROVE FALSE
  <2>1. b - 1 \in a..(k - 1) /\ b > 1 BY <1>1
  <2> QED BY <1>1, <2>1 DEF Run
<1> QED BY <1>1

\* What the recursive definition of Valued says: every other word of a run of
\* options with values is a value, and the word after a run of odd length.
LEMMA ValuedIs ==
  \A k \in Nat : Valued[k] <=> k > 1 /\ argv[k - 1] \in ValueOptions /\ ~Valued[k - 1]
<1> DEFINE Odd(k) == \E j \in 1..k : Run(j, k) /\ (k - j) % 2 = 1
           f == [k \in Nat |-> Odd(k)]
           Step(g) == [k \in Nat |-> k > 1 /\ argv[k - 1] \in ValueOptions /\ ~g[k - 1]]
<1>1. ASSUME NEW k \in Nat
      PROVE Odd(k) <=> k > 1 /\ argv[k - 1] \in ValueOptions /\ ~Odd(k - 1)
  <2>1. CASE k = 0 BY <2>1
  <2>2. CASE k = 1 BY <2>2
  <2>3. CASE k > 1 /\ argv[k - 1] \notin ValueOptions
    <3>1. \A j \in 1..k : Run(j, k) => j = k BY <2>3 DEF Run
    <3> QED BY <2>3, <3>1
  <2>4. CASE k > 1 /\ argv[k - 1] \in ValueOptions
    <3>1. ~Run(k, k) BY <2>4 DEF Run
    <3>2. ASSUME NEW j \in 1..(k - 1) PROVE Run(j, k) <=> Run(j, k - 1)
      <4>1. \A m \in j..(k - 1) : m = k - 1 \/ m \in j..(k - 1 - 1) BY <2>4
      <4>2. \A m \in j..(k - 1 - 1) : m \in j..(k - 1) BY <2>4
      <4> QED BY <2>4, <4>1, <4>2 DEF Run
    <3>3. PICK j \in 1..(k - 1) : Run(j, k - 1) BY <2>4, RunExists
    <3>4. \A l \in 1..(k - 1) : Run(l, k - 1) => l = j BY <2>4, <3>3, RunUnique
    <3>5. Odd(k) <=> (k - j) % 2 = 1
      <4>1. \A l \in 1..k : Run(l, k) => l = j
        <5>1. \A l \in 1..k : l = k \/ l \in 1..(k - 1) BY <2>4
        <5> QED BY <3>1, <3>2, <3>4, <5>1
      <4>2. j \in 1..k /\ Run(j, k) BY <3>2, <3>3, <2>4
      <4> QED BY <4>1, <4>2
    <3>6. Odd(k - 1) <=> (k - 1 - j) % 2 = 1 BY <3>3, <3>4
    <3>7. (k - j) % 2 = 1 <=> (k - 1 - j) % 2 # 1 BY <2>4
    <3> QED BY <2>4, <3>5, <3>6, <3>7
  <2> QED BY <2>1, <2>2, <2>3, <2>4
<1>2. ASSUME NEW k \in Nat PROVE f[k] = Step(f)[k]
  <2>1. k > 1 => k - 1 \in Nat OBVIOUS
  <2> QED BY <1>1, <2>1, Zenon
<1>3. f = Step(f) BY <1>2, Zenon
<1>4. \E g : g = Step(g) BY <1>3, Zenon
<1> HIDE DEF f
<1>5. Valued = Step(Valued)
  BY <1>4, Zenon DEF Valued
<1> HIDE DEF Step
<1>6. \A k \in Nat : Valued[k] = Step(Valued)[k] BY <1>5, Zenon
<1> USE DEF Step
<1> QED BY <1>6, Zenon

\* The same, for the word after a word.
LEMMA ValuedNext == ASSUME NEW k \in Nat \ {0}
                    PROVE Valued[k + 1] <=> argv[k] \in ValueOptions /\ ~Valued[k]
<1>1. k + 1 \in Nat /\ k + 1 > 1 /\ (k + 1) - 1 = k OBVIOUS
<1> QED BY <1>1, ValuedIs, Zenon

\* The first word is no value.
LEMMA FirstNotValued == ~Valued[1]
<1>1. 1 \in Nat /\ ~(1 > 1) OBVIOUS
<1> QED BY <1>1, ValuedIs, Zenon

\* The words that ParseArg has taken for arguments before word m.
ArgsBefore(m) == {k \in Arguments : k < m}

\* opts after the words before m: the first argument is the phone, the last
\* of several the url, the last value of an option counts.
PhoneSet(m) == /\ opts.phone = "none" <=> ArgsBefore(m) = {}
               /\ \A k \in ArgsBefore(m) :
                    (\A l \in ArgsBefore(m) : k <= l) => opts.phone = argv[k]

UrlSet(m) == /\ \A k, l \in ArgsBefore(m) :
                  k < l /\ (\A o \in ArgsBefore(m) : o <= l) => opts.url = argv[l]
             /\ (\A k, l \in ArgsBefore(m) : k = l) => opts.url = Defaults.url

ValueOf(option, k) == Valued[k] /\ argv[k - 1] = option
LastBefore(option, k, m) == /\ k < m /\ ValueOf(option, k)
                            /\ \A l \in (k + 1)..(m - 1) : ~ValueOf(option, l)

WidthSet(m) == \A k \in DOMAIN argv : LastBefore("--width", k, m) => opts.width = atoi(argv[k])
FormatSet(m) == \A k \in DOMAIN argv :
                  LastBefore("--format", k, m) => opts.format = parse_format(argv[k])
HwSet(m) == opts.hw <=> \A k \in DOMAIN argv : k < m /\ ~Valued[k] => argv[k] # "--no-hw"

\* The last word is not an option that lacks its value.
Complete == Len(argv) > 0 /\ argv[Len(argv)] \in ValueOptions => Valued[Len(argv)]

OptsSet(m) == PhoneSet(m) /\ UrlSet(m) /\ WidthSet(m) /\ FormatSet(m) /\ HwSet(m)

Texts == {"none", "default", "avc", "hevc", "jpg"} \cup {argv[k] : k \in DOMAIN argv}
Options == [gui : BOOLEAN, phone : Texts, url : Texts, width : Nat, format : Texts, hw : BOOLEAN]

ParseInv == /\ argv \in CommandLines /\ i \in 1..(Len(argv) + 1) /\ opts \in Options
            /\ mpc # "args" => i = Len(argv) + 1
            /\ i <= Len(argv) => ~Valued[i]
            /\ Complete => OptsSet(i)

\* A source has the configuration it was started with, which nobody changes
\* before it is stopped: Connect needs the pipeline thread to have ended.
ConfigInv == /\ source <=> cpc # "none"
             /\ source => started \in {"argv", pconfig}
             /\ ~source => started = "none"

-----------------------------------------------------------------------------
\* What the proofs need of a command line.
LEMMA Line == ASSUME argv \in CommandLines
              PROVE /\ Len(argv) \in Nat /\ DOMAIN argv = 1..Len(argv)
                    /\ \A k \in 1..Len(argv) : argv[k] # "none"
<1>1. argv \in Seq(STRING \ {"none"}) BY GuiCommandLines
<1> QED BY <1>1

\* Before the first word nothing is set.
LEMMA InitParse == Init => ParseInv
<1> SUFFICES ASSUME Init PROVE ParseInv
  OBVIOUS
<1>1. argv \in CommandLines /\ i = 1 /\ opts = Defaults /\ mpc = "args" BY DEF Init
<1>2. Len(argv) \in Nat /\ DOMAIN argv = 1..Len(argv) BY <1>1, Line
<1>3. opts \in Options BY <1>1 DEF Defaults, Options, Texts
<1>4. ~Valued[1] BY FirstNotValued
<1>5. ArgsBefore(1) = {} BY <1>2 DEF ArgsBefore, Arguments
<1>6. PhoneSet(1) /\ UrlSet(1) BY <1>1, <1>5 DEF PhoneSet, UrlSet, Defaults
<1>7. WidthSet(1) /\ FormatSet(1) /\ HwSet(1)
  BY <1>1, <1>2 DEF WidthSet, FormatSet, HwSet, LastBefore, Defaults
<1> QED BY <1>1, <1>2, <1>3, <1>4, <1>6, <1>7 DEF ParseInv, OptsSet

\* While argv does not change, neither does what its words are.
LEMMA WordsKept == ASSUME argv' = argv
                   PROVE Valued' = Valued /\ Arguments' = Arguments /\ (Complete' <=> Complete)
<1>1. Valued' = Valued BY DEF Valued
<1>2. Arguments' = Arguments BY <1>1 DEF Arguments
<1>3. Complete' <=> Complete BY <1>1 DEF Complete
<1> QED BY <1>1, <1>2, <1>3

\* Steps that read no word.
LEMMA ParseKept ==
  ASSUME ParseInv, UNCHANGED <<argv, i, opts>>, mpc # "args" => mpc' # "args",
         mpc' # "args" => i = Len(argv) + 1
  PROVE ParseInv'
<1>1. Valued' = Valued /\ Arguments' = Arguments BY WordsKept
<1>2. Complete' => Complete BY <1>1 DEF Complete
<1>3. Complete => OptsSet(i) BY DEF ParseInv
<1>4. OptsSet(i) => OptsSet(i)'
  BY <1>1 DEF OptsSet, PhoneSet, UrlSet, WidthSet, FormatSet, HwSet, ArgsBefore, LastBefore, ValueOf
<1> QED BY <1>1, <1>2, <1>3, <1>4 DEF ParseInv, Options, Texts

\* One round of the loop over argv: word i is an argument, a flag, or an
\* option with its value.  First: values and flags keep counting past a word that is none of them.
LEMMA OthersPassed ==
  ASSUME argv \in CommandLines, UNCHANGED argv, i \in 1..Len(argv), ~Valued[i], i' = i + 1,
         argv[i] \notin ValueOptions
  PROVE /\ WidthSet(i) /\ opts'.width = opts.width => WidthSet(i)'
        /\ FormatSet(i) /\ opts'.format = opts.format => FormatSet(i)'
        /\ HwSet(i) /\ opts'.hw = opts.hw /\ argv[i] # "--no-hw" => HwSet(i)'
<1>1. Len(argv) \in Nat /\ DOMAIN argv = 1..Len(argv) /\ i \in Nat BY Line
<1>2. Valued' = Valued BY WordsKept
<1>3. ASSUME NEW option, NEW k \in DOMAIN argv, LastBefore(option, k, i)'
      PROVE LastBefore(option, k, i)
  BY <1>1, <1>2, <1>3 DEF LastBefore, ValueOf
<1>4. WidthSet(i) /\ opts'.width = opts.width => WidthSet(i)'
  BY <1>3 DEF WidthSet
<1>5. FormatSet(i) /\ opts'.format = opts.format => FormatSet(i)'
  BY <1>3 DEF FormatSet
<1>6. \A k \in DOMAIN argv : k < i' <=> k < i \/ k = i BY <1>1
<1>7. HwSet(i) /\ opts'.hw = opts.hw /\ argv[i] # "--no-hw" => HwSet(i)'
  BY <1>2, <1>6 DEF HwSet
<1> QED BY <1>4, <1>5, <1>7

\* Word i is an argument.
LEMMA RoundIsArgument ==
  ASSUME ParseInv, Complete, UNCHANGED argv, i \in 1..Len(argv),
         argv[i] \notin Flags \cup ValueOptions, i' = i + 1,
         opts' = IF opts.phone = "none" THEN [opts EXCEPT !.phone = argv[i]]
                                        ELSE [opts EXCEPT !.url = argv[i]]
  PROVE OptsSet(i)'
<1>1. /\ Len(argv) \in Nat /\ DOMAIN argv = 1..Len(argv) /\ argv[i] # "none"
      /\ i \in Nat
  BY Line DEF ParseInv
<1>2. ~Valued[i] /\ OptsSet(i) /\ opts \in Options BY <1>1 DEF ParseInv
<1>3. Valued' = Valued /\ Arguments' = Arguments BY WordsKept
<1>4. i \in Arguments BY <1>1, <1>2 DEF Arguments
<1>5. Arguments \subseteq Nat BY <1>1 DEF Arguments
<1> HIDE DEF Arguments
<1>6. ArgsBefore(i)' = ArgsBefore(i) \cup {i}
  BY <1>1, <1>3, <1>4, <1>5 DEF ArgsBefore
<1>7. \A k \in ArgsBefore(i) : k \in Nat /\ k < i BY <1>5 DEF ArgsBefore
<1>8. argv[i] # "--no-hw" /\ argv[i] \notin ValueOptions BY DEF Flags
<1>9. CASE opts.phone = "none"
  <2>1. /\ opts'.phone = argv[i] /\ opts'.url = opts.url /\ opts'.width = opts.width
        /\ opts'.format = opts.format /\ opts'.hw = opts.hw
    BY <1>2, <1>9 DEF Options
  <2>2. ArgsBefore(i) = {} /\ ArgsBefore(i)' = {i} BY <1>2, <1>6, <1>9 DEF OptsSet, PhoneSet
  <2>3. PhoneSet(i)' BY <1>1, <2>1, <2>2 DEF PhoneSet
  <2>4. opts.url = Defaults.url BY <1>2, <2>2 DEF OptsSet, UrlSet
  <2>5. UrlSet(i)' BY <1>1, <2>1, <2>2, <2>4 DEF UrlSet, Defaults
  <2> QED BY <1>2, <1>8, <2>1, <2>3, <2>5, OthersPassed DEF OptsSet, ParseInv
<1>10. CASE opts.phone # "none"
  <2>1. /\ opts'.phone = opts.phone /\ opts'.url = argv[i] /\ opts'.width = opts.width
        /\ opts'.format = opts.format /\ opts'.hw = opts.hw
    BY <1>2, <1>10 DEF Options
  <2>2. ArgsBefore(i) # {} BY <1>2, <1>10 DEF OptsSet, PhoneSet
  <2>3. PhoneSet(i)'
    BY <1>1, <1>2, <1>6, <1>7, <1>10, <2>1, <2>2 DEF OptsSet, PhoneSet
  <2>4. UrlSet(i)' BY <1>1, <1>6, <1>7, <2>1, <2>2 DEF UrlSet
  <2> QED BY <1>2, <1>8, <2>1, <2>3, <2>4, OthersPassed DEF OptsSet, ParseInv
<1> QED BY <1>9, <1>10

\* Word i is a flag.
LEMMA RoundIsFlag ==
  ASSUME ParseInv, Complete, UNCHANGED argv, i \in 1..Len(argv), i' = i + 1,
         \/ argv[i] = "--gui" /\ opts' = [opts EXCEPT !.gui = TRUE]
         \/ argv[i] = "--no-hw" /\ opts' = [opts EXCEPT !.hw = FALSE]
  PROVE OptsSet(i)'
<1>1. Len(argv) \in Nat /\ DOMAIN argv = 1..Len(argv) /\ i \in Nat BY Line DEF ParseInv
<1>2. ~Valued[i] /\ OptsSet(i) /\ opts \in Options BY <1>1 DEF ParseInv
<1>3. Valued' = Valued /\ Arguments' = Arguments BY WordsKept
<1>4. argv[i] \in Flags /\ argv[i] \notin ValueOptions BY DEF Flags, ValueOptions
<1>5. i \notin Arguments /\ Arguments \subseteq Nat BY <1>1, <1>4 DEF Arguments
<1>6. ArgsBefore(i)' = ArgsBefore(i) BY <1>1, <1>3, <1>5 DEF ArgsBefore
<1>7. /\ opts'.phone = opts.phone /\ opts'.url = opts.url
      /\ opts'.width = opts.width /\ opts'.format = opts.format
  BY <1>2 DEF Options
<1>8. PhoneSet(i)' /\ UrlSet(i)' BY <1>2, <1>6, <1>7 DEF OptsSet, PhoneSet, UrlSet
<1>9. WidthSet(i)' /\ FormatSet(i)'
  BY <1>2, <1>4, <1>7, OthersPassed DEF OptsSet, ParseInv
<1>10. HwSet(i)'
  <2>1. CASE argv[i] = "--gui" /\ opts' = [opts EXCEPT !.gui = TRUE]
    <3>1. opts'.hw = opts.hw BY <1>2, <2>1 DEF Options
    <3> QED BY <1>2, <1>4, <2>1, <3>1, OthersPassed DEF OptsSet, ParseInv
  <2>2. CASE argv[i] = "--no-hw" /\ opts' = [opts EXCEPT !.hw = FALSE]
    <3>1. opts'.hw = FALSE BY <1>2, <2>2 DEF Options
    <3>2. i \in DOMAIN argv' /\ i < i' /\ ~Valued'[i] /\ argv'[i] = "--no-hw"
      BY <1>1, <1>2, <1>3, <2>2
    <3> QED BY <3>1, <3>2 DEF HwSet
  <2> QED BY <2>1, <2>2
<1> QED BY <1>8, <1>9, <1>10 DEF OptsSet

\* Word i is an option and word i + 1 its value.
LEMMA RoundHasValue ==
  ASSUME ParseInv, Complete, UNCHANGED argv, i \in 1..(Len(argv) - 1), i' = i + 2,
         \/ /\ argv[i] = "--width"
            /\ opts' = [opts EXCEPT !.width = atoi(argv[i + 1])]
         \/ /\ argv[i] = "--format"
            /\ opts' = [opts EXCEPT !.format = parse_format(argv[i + 1])]
  PROVE OptsSet(i)'
<1>1. /\ Len(argv) \in Nat /\ DOMAIN argv = 1..Len(argv) /\ i \in Nat \ {0} /\ i <= Len(argv)
      /\ i + 1 \in DOMAIN argv
  BY Line DEF ParseInv
<1>2. ~Valued[i] /\ OptsSet(i) /\ opts \in Options BY <1>1 DEF ParseInv
<1>3. Valued' = Valued /\ Arguments' = Arguments BY WordsKept
<1>4. argv[i] \in ValueOptions BY DEF ValueOptions
<1>5. Valued[i + 1] BY <1>1, <1>2, <1>4, ValuedNext
<1>6. i \notin Arguments /\ i + 1 \notin Arguments /\ Arguments \subseteq Nat
  BY <1>1, <1>4, <1>5 DEF Arguments
<1>7. ArgsBefore(i)' = ArgsBefore(i) BY <1>1, <1>3, <1>6 DEF ArgsBefore
<1>8. opts'.phone = opts.phone /\ opts'.url = opts.url /\ opts'.hw = opts.hw
  BY <1>2 DEF Options
<1>9. PhoneSet(i)' /\ UrlSet(i)' BY <1>2, <1>7, <1>8 DEF OptsSet, PhoneSet, UrlSet
<1>10. HwSet(i)'
  <2>1. \A k \in DOMAIN argv : k < i' <=> k < i \/ k = i \/ k = i + 1 BY <1>1
  <2>2. argv[i] # "--no-hw" OBVIOUS
  <2> QED BY <1>2, <1>3, <1>5, <1>8, <2>1, <2>2 DEF OptsSet, HwSet
<1>11. ASSUME NEW option, NEW k \in DOMAIN argv, LastBefore(option, k, i)'
       PROVE IF argv[i] = option THEN k = i + 1 ELSE LastBefore(option, k, i)
  <2>1. k < i' /\ ValueOf(option, k) /\ \A l \in (k + 1)..(i' - 1) : ~ValueOf(option, l)
    BY <1>3, <1>11 DEF LastBefore, ValueOf
  <2>2. CASE argv[i] = option
    <3>1. ValueOf(option, i + 1) BY <1>1, <1>5, <2>2 DEF ValueOf
    <3> QED BY <1>1, <2>1, <2>2, <3>1
  <2>3. CASE argv[i] # option
    <3>1. ~ValueOf(option, i + 1) BY <1>1, <2>3 DEF ValueOf
    <3>2. ~ValueOf(option, i) BY <1>2 DEF ValueOf
    <3>3. k < i BY <1>1, <2>1, <3>1, <3>2
    <3> QED BY <1>1, <2>1, <2>3, <3>3 DEF LastBefore
  <2> QED BY <2>2, <2>3
<1>12. WidthSet(i)'
  <2>1. CASE /\ argv[i] = "--width" /\ opts' = [opts EXCEPT !.width = atoi(argv[i + 1])]
    <3>1. opts'.width = atoi(argv[i + 1]) BY <1>2, <2>1 DEF Options
    <3>2. \A k \in DOMAIN argv : LastBefore("--width", k, i)' => k = i + 1 BY <1>11, <2>1
    <3> QED BY <3>1, <3>2 DEF WidthSet
  <2>2. CASE argv[i] = "--format" /\ opts' = [opts EXCEPT !.format = parse_format(argv[i + 1])]
    <3>1. opts'.width = opts.width BY <1>2, <2>2 DEF Options
    <3>2. \A k \in DOMAIN argv : LastBefore("--width", k, i)' => LastBefore("--width", k, i)
      BY <1>11, <2>2
    <3> QED BY <1>2, <3>1, <3>2 DEF OptsSet, WidthSet
  <2> QED BY <2>1, <2>2
<1>13. FormatSet(i)'
  <2>1. CASE /\ argv[i] = "--width" /\ opts' = [opts EXCEPT !.width = atoi(argv[i + 1])]
    <3>1. opts'.format = opts.format BY <1>2, <2>1 DEF Options
    <3>2. \A k \in DOMAIN argv : LastBefore("--format", k, i)' => LastBefore("--format", k, i)
      BY <1>11, <2>1
    <3> QED BY <1>2, <3>1, <3>2 DEF OptsSet, FormatSet
  <2>2. CASE argv[i] = "--format" /\ opts' = [opts EXCEPT !.format = parse_format(argv[i + 1])]
    <3>1. opts'.format = parse_format(argv[i + 1]) BY <1>2, <2>2 DEF Options
    <3>2. \A k \in DOMAIN argv : LastBefore("--format", k, i)' => k = i + 1 BY <1>11, <2>2
    <3> QED BY <3>1, <3>2 DEF FormatSet
  <2> QED BY <2>1, <2>2
<1> QED BY <1>9, <1>10, <1>12, <1>13 DEF OptsSet

\* A round of the loop keeps ParseInv.
LEMMA ParseArgParse == ASSUME ParseInv, ParseArg PROVE ParseInv'
<1> DEFINE a == argv[i]
           valued == a \in ValueOptions /\ i < Len(argv)
<1>1. /\ argv' = argv /\ mpc = "args" /\ mpc' = "args" /\ i <= Len(argv)
      /\ i' = IF valued THEN i + 2 ELSE i + 1
  BY DEF ParseArg, winVars
<1>2. opts' = CASE a = "--gui" -> [opts EXCEPT !.gui = TRUE]
                [] a = "--no-hw" -> [opts EXCEPT !.hw = FALSE]
                [] a = "--width" /\ valued -> [opts EXCEPT !.width = atoi(argv[i + 1])]
                [] a = "--format" /\ valued -> [opts EXCEPT !.format = parse_format(argv[i + 1])]
                [] OTHER -> IF opts.phone = "none" THEN [opts EXCEPT !.phone = a]
                                                   ELSE [opts EXCEPT !.url = a]
  BY DEF ParseArg
<1>3. /\ Len(argv) \in Nat /\ DOMAIN argv = 1..Len(argv) /\ i \in Nat \ {0}
      /\ i \in 1..Len(argv) /\ opts \in Options /\ ~Valued[i] /\ argv \in CommandLines
  BY <1>1, Line DEF ParseInv
<1>4. Valued' = Valued /\ (Complete' <=> Complete) BY <1>1, WordsKept
<1>5. Options' = Options BY <1>1 DEF Options, Texts
<1>6. a \in Texts BY <1>3 DEF Texts
<1>7. \A w : atoi(w) \in Nat /\ parse_format(w) \in Texts
  <2>1. \A w : atoi(w) \in Nat BY DEF atoi
  <2>2. \A w : parse_format(w) \in {"hevc", "jpg", "avc"} BY DEF parse_format
  <2> QED BY <2>1, <2>2 DEF Texts
<1>8. a \in {"--gui", "--no-hw"} => a \notin ValueOptions BY DEF ValueOptions
<1>9. a \in ValueOptions <=> a \in {"--width", "--format"} BY DEF ValueOptions
<1>10. a \in Flags <=> a \in {"--gui", "--no-hw"} BY DEF Flags
<1>11. CASE valued
  <2>1. i' = i + 2 /\ i \in 1..(Len(argv) - 1) BY <1>1, <1>3, <1>11
  <2>2. \/ a = "--width" /\ opts' = [opts EXCEPT !.width = atoi(argv[i + 1])]
        \/ a = "--format" /\ opts' = [opts EXCEPT !.format = parse_format(argv[i + 1])]
    BY <1>2, <1>9, <1>11
  <2>3. opts' \in Options BY <1>3, <1>7, <2>2 DEF Options
  <2>4. ~Valued[i + 2]
    <3>1. Valued[i + 1] BY <1>3, <1>11, ValuedNext
    <3>2. i + 1 \in Nat \ {0} /\ (i + 1) + 1 = i + 2 BY <1>3
    <3>3. ~Valued[(i + 1) + 1] BY <3>1, <3>2, ValuedNext
    <3> QED BY <3>2, <3>3
  <2>5. Complete => OptsSet(i)' BY <1>1, <2>1, <2>2, RoundHasValue
  <2> QED BY <1>1, <1>3, <1>4, <1>5, <2>1, <2>3, <2>4, <2>5 DEF ParseInv
<1>12. CASE ~valued /\ a \in Flags
  <2>1. i' = i + 1 BY <1>1, <1>12
  <2>2. \/ a = "--gui" /\ opts' = [opts EXCEPT !.gui = TRUE]
        \/ a = "--no-hw" /\ opts' = [opts EXCEPT !.hw = FALSE]
    BY <1>2, <1>10, <1>12
  <2>3. opts' \in Options BY <1>3, <2>2 DEF Options
  <2>4. ~Valued[i + 1] BY <1>3, <1>8, <1>10, <1>12, ValuedNext
  <2>5. Complete => OptsSet(i)' BY <1>1, <1>3, <2>1, <2>2, RoundIsFlag
  <2> QED BY <1>1, <1>3, <1>4, <1>5, <2>1, <2>3, <2>4, <2>5 DEF ParseInv
<1>13. CASE ~valued /\ a \notin Flags
  <2>1. i' = i + 1 BY <1>1, <1>13
  <2>2. opts' = IF opts.phone = "none" THEN [opts EXCEPT !.phone = a]
                                       ELSE [opts EXCEPT !.url = a]
    BY <1>2, <1>10, <1>13
  <2>3. opts' \in Options BY <1>3, <1>6, <2>2 DEF Options
  <2>4. CASE a \in ValueOptions
    <3>1. i = Len(argv)
      <4>1. ~(i < Len(argv)) BY <1>13, <2>4, Zenon
      <4>2. i <= Len(argv) /\ i \in Nat /\ Len(argv) \in Nat BY <1>3
      <4> QED BY <4>1, <4>2
    <3>2. ~Complete BY <1>3, <2>4, <3>1 DEF Complete
    <3> QED BY <1>1, <1>3, <1>4, <1>5, <2>1, <2>3, <3>1, <3>2 DEF ParseInv
  <2>5. CASE a \notin ValueOptions
    <3>1. ~Valued[i + 1] BY <1>3, <2>5, ValuedNext
    <3>2. Complete => OptsSet(i)' BY <1>1, <1>3, <1>13, <2>1, <2>2, <2>5, RoundIsArgument
    <3> QED BY <1>1, <1>3, <1>4, <1>5, <2>1, <2>3, <3>1, <3>2 DEF ParseInv
  <2> QED BY <2>4, <2>5
<1> QED BY <1>11, <1>12, <1>13

\* The other steps read no word; Parsed leaves the loop at its end, and
\* nobody comes back into it.
LEMMA NextParse == IInv /\ ParseInv /\ [Next]_vars => ParseInv'
<1> SUFFICES ASSUME IInv, ParseInv, [Next]_vars PROVE ParseInv'
  OBVIOUS
<1> USE DEF argVars, winVars, MGoto, WKeeps
<1>1. CASE ParseArg BY <1>1, ParseArgParse
<1>2. CASE Parsed
  <2>1. UNCHANGED <<argv, i, opts>> /\ mpc = "args" /\ i > Len(argv) BY <1>2 DEF Parsed
  <2>2. i = Len(argv) + 1 BY <2>1, Line DEF ParseInv
  <2> QED BY <2>1, <2>2, ParseKept
<1>3. ASSUME UNCHANGED <<argv, i, opts>>, mpc' = mpc \/ (mpc # "args" /\ mpc' # "args")
      PROVE ParseInv'
  BY <1>3, ParseKept DEF ParseInv
<1>4. CASE UNCHANGED vars BY <1>3, <1>4 DEF vars
<1>5. CASE ConsoleStart \/ ConsoleStop \/ Quit \/ Finish
  BY <1>3, <1>5 DEF ConsoleStart, ConsoleStop, Quit, Finish
<1>6. CASE EndStop
  BY <1>3, <1>6 DEF EndStop, IInv, Threads
<1>7. CASE User
  BY <1>3, <1>7 DEF User, Connect, ConnectFail, Disconnect, Close, BeginStop, OpenSettings,
                    CloseSettings, Signal, Looping
<1>8. CASE Pipeline
  BY <1>3, <1>8 DEF Pipeline, gui_set_status, PipelineStart, PipelineStop
<1>9. CASE Paint \/ FrameEnter \/ FrameCopy \/ FrameLeave
  BY <1>3, <1>9 DEF Paint, FrameEnter, FrameCopy, FrameLeave
<1> QED BY <1>1, <1>2, <1>4, <1>5, <1>6, <1>7, <1>8, <1>9 DEF Next, Main, Ended

\* The configuration of the source.
LEMMA NextConfig == IInv /\ ConfigInv /\ [Next]_vars => ConfigInv'
<1> SUFFICES ASSUME IInv, ConfigInv, [Next]_vars PROVE ConfigInv'
  OBVIOUS
<1> USE DEF pipeVars, srcVars, MGoto, WKeeps
<1>1. ASSUME UNCHANGED <<source, started, cpc, pconfig>> PROVE ConfigInv'
  BY <1>1 DEF ConfigInv
<1>2. CASE UNCHANGED vars BY <1>1, <1>2 DEF vars
<1>3. CASE ParseArg \/ Parsed \/ EndStop \/ Quit \/ Finish
  BY <1>1, <1>3 DEF ParseArg, Parsed, EndStop, Quit, Finish
<1>4. CASE ConsoleStart
  BY <1>1, <1>4 DEF ConsoleStart, SourceStart, ConfigInv
<1>5. CASE ConsoleStop
  BY <1>5 DEF ConsoleStop, SourceStop, ConfigInv
<1>6. CASE Connect \/ ConnectFail
  <2>1. cpc = "none" BY <1>6 DEF Connect, ConnectFail, IInv, Threads
  <2>2. UNCHANGED <<source, started, cpc>> BY <1>6 DEF Connect, ConnectFail
  <2> QED BY <2>1, <2>2 DEF ConfigInv
<1>7. CASE Disconnect \/ Close \/ OpenSettings \/ CloseSettings \/ Signal
  BY <1>1, <1>7 DEF Disconnect, Close, BeginStop, OpenSettings, CloseSettings, Signal
<1>8. CASE PipelineStart
  BY <1>1, <1>8 DEF PipelineStart, SourceStart, ConfigInv
<1>9. CASE PipelineStop
  BY <1>9 DEF PipelineStop, SourceStop, ConfigInv
<1>10. ASSUME NEW from, NEW to, NEW text, gui_set_status(from, to, text) PROVE ConfigInv'
  BY <1>1, <1>10 DEF gui_set_status
<1>11. CASE Paint
  BY <1>1, <1>11 DEF Paint
<1>12. CASE FrameEnter \/ FrameCopy \/ FrameLeave
  BY <1>12 DEF FrameEnter, FrameCopy, FrameLeave, ConfigInv
<1> QED BY <1>2, <1>3, <1>4, <1>5, <1>6, <1>7, <1>8, <1>9, <1>10, <1>11, <1>12
        DEF Next, Main, User, Pipeline, Ended

\* One argument, or none, is no more than one.
LEMMA Several == ASSUME argv \in CommandLines, NEW k \in Arguments, Cardinality(Arguments) > 1
                 PROVE \E l \in Arguments : l # k
<1> SUFFICES ASSUME Arguments = {k} PROVE FALSE
  OBVIOUS
<1>1. Cardinality({k}) = 1 BY FS_Singleton
<1> QED BY <1>1

\* Two arguments are.
LEMMA AtLeastTwo ==
  ASSUME argv \in CommandLines, NEW k \in Arguments, NEW l \in Arguments, k # l
  PROVE Cardinality(Arguments) > 1
<1>1. Len(argv) \in Nat /\ DOMAIN argv = 1..Len(argv) BY Line
<1>2. IsFiniteSet(1..Len(argv)) BY <1>1, FS_Interval
<1>3. Arguments \subseteq 1..Len(argv) BY <1>1 DEF Arguments
<1>4. IsFiniteSet(Arguments) BY <1>2, <1>3, FS_Subset
<1>5. {k, l} \subseteq Arguments OBVIOUS
<1>6. Cardinality({k, l}) <= Cardinality(Arguments) BY <1>4, <1>5, FS_Subset
<1>7. Cardinality({k, l}) = 2
  <2>1. IsFiniteSet({k}) /\ Cardinality({k}) = 1 BY FS_Singleton
  <2>2. {k, l} = {k} \cup {l} /\ l \notin {k} OBVIOUS
  <2> QED BY <2>1, <2>2, FS_AddElement
<1>8. Cardinality(Arguments) \in Nat BY <1>4, FS_CardinalityType
<1> QED BY <1>6, <1>7, <1>8

\* After the loop, opts is what the words say.
LEMMA ParsedConfig ==
  ASSUME ParseInv, mpc # "args", argv[Len(argv)] \in ValueOptions => Valued[Len(argv)]
  PROVE /\ \A k \in Arguments : (\A l \in Arguments : k <= l) => opts.phone = argv[k]
        /\ \A k \in Arguments : (\A l \in Arguments : k >= l) =>
             opts.url = IF Cardinality(Arguments) > 1 THEN argv[k] ELSE Defaults.url
        /\ \A k \in LastValue("--width") : opts.width = atoi(argv[k])
        /\ \A k \in LastValue("--format") : opts.format = parse_format(argv[k])
        /\ opts.hw = ("--no-hw" \notin {argv[k] : k \in {l \in DOMAIN argv : ~Valued[l]}})
<1>1. /\ argv \in CommandLines /\ Len(argv) \in Nat /\ DOMAIN argv = 1..Len(argv)
      /\ i = Len(argv) + 1
  BY Line DEF ParseInv
<1>2. OptsSet(i) /\ opts \in Options
  <2>1. Complete BY DEF Complete
  <2> QED BY <2>1 DEF ParseInv
<1>3. Arguments \subseteq 1..Len(argv) BY <1>1 DEF Arguments
<1>4. ArgsBefore(i) = Arguments
  <2>1. \A k \in 1..Len(argv) : k < i BY <1>1
  <2>2. \A k \in Arguments : k < i BY <1>3, <2>1, Zenon
  <2> QED BY <2>2, Zenon DEF ArgsBefore
<1>5. \A k \in Arguments : (\A l \in Arguments : k <= l) => opts.phone = argv[k]
  BY <1>2, <1>4 DEF OptsSet, PhoneSet
<1>6. ASSUME NEW k \in Arguments, \A l \in Arguments : k >= l
      PROVE opts.url = IF Cardinality(Arguments) > 1 THEN argv[k] ELSE Defaults.url
  <2>1. CASE Cardinality(Arguments) > 1
    <3>1. PICK l \in Arguments : l # k BY <1>1, <2>1, Several
    <3>2. l < k /\ \A o \in Arguments : o <= k BY <1>3, <1>6, <3>1
    <3> QED BY <1>2, <1>4, <2>1, <3>2 DEF OptsSet, UrlSet
  <2>2. CASE ~(Cardinality(Arguments) > 1)
    <3>1. \A l, m \in Arguments : l = m BY <1>1, <2>2, AtLeastTwo
    <3> QED BY <1>2, <1>4, <2>2, <3>1 DEF OptsSet, UrlSet
  <2> QED BY <2>1, <2>2
<1>7. ASSUME NEW option, NEW k \in LastValue(option)
      PROVE k \in DOMAIN argv /\ LastBefore(option, k, i)
  BY <1>1 DEF LastValue, LastBefore, ValueOf
<1>8. \A k \in LastValue("--width") : opts.width = atoi(argv[k])
  BY <1>2, <1>7 DEF OptsSet, WidthSet
<1>9. \A k \in LastValue("--format") : opts.format = parse_format(argv[k])
  BY <1>2, <1>7 DEF OptsSet, FormatSet
<1>10. opts.hw <=> "--no-hw" \notin {argv[k] : k \in {l \in DOMAIN argv : ~Valued[l]}}
  <2>1. \A k \in DOMAIN argv : k < i BY <1>1
  <2>2. opts.hw <=> \A k \in DOMAIN argv : ~Valued[k] => argv[k] # "--no-hw"
    BY <1>2, <2>1 DEF OptsSet, HwSet
  <2> QED BY <2>2
<1>11. opts.hw \in BOOLEAN BY <1>2 DEF Options
<1>12. opts.hw = ("--no-hw" \notin {argv[k] : k \in {l \in DOMAIN argv : ~Valued[l]}})
  BY <1>10, <1>11, Zenon
<1> QED BY <1>5, <1>6, <1>8, <1>9, <1>12

(* The source runs with what the user asked for, for all command lines,    *)
(* of any length: main's loop over argv sets the options as the usage line *)
(* describes them, and the copies of gui_start_pipeline stay as they are   *)
(* until droidcam_source_stop, whatever the settings dialog saves.         *)
THEOREM SessionConfigured == Spec => []SessionConfig
<1>1. Init => ParseInv /\ ConfigInv BY InitParse DEF Init, ConfigInv
<1>2. IInv /\ ParseInv /\ ConfigInv => SessionConfig
  <2> SUFFICES ASSUME IInv, ParseInv, ConfigInv PROVE SessionConfig
    OBVIOUS
  <2>1. source => SourceReads = started BY DEF ConfigInv, SourceReads
  <2>2. started = "argv" => mpc # "args" BY DEF ConfigInv, IInv, Threads
  <2> QED BY <2>1, <2>2, ParsedConfig DEF SessionConfig
<1> QED BY <1>1, <1>2, Invariant, NextParse, NextConfig, PTL DEF Spec
=============================================================================
