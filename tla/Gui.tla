-------------------------------- MODULE Gui --------------------------------
(***************************************************************************)
(* main.c and gui_win32.c: the command line, the console mode, and the     *)
(* window with its settings dialog and the pipeline it starts and stops.   *)
(* Four threads: main, which is the window's thread (mpc); the pipeline    *)
(* thread (ppc); the decode thread of the source, which delivers pictures  *)
(* for the preview (cpc); a signal handler.  They share WinGui under one   *)
(* critical section, and the configuration.  The source itself is module   *)
(* Source: here it is alive from droidcam_source_start to                  *)
(* droidcam_source_stop, which waits for the decode thread.                *)
(* A size stands for width and height of a picture and its bytes.  Of the  *)
(* options --width stands for all with a number and --no-hw for --hdr too. *)
(***************************************************************************)
EXTENDS Naturals, Sequences, FiniteSets

CONSTANTS CommandLines,   \* argv[1..] of the program
          Sizes,          \* sizes of the pictures
          Typed           \* what may be typed into the settings; "0" is not a number > 0

\* "none" stands for NULL, which is no word.
ASSUME GuiCommandLines == CommandLines \subseteq Seq(STRING \ {"none"})
ASSUME GuiSizes == Sizes \subseteq Nat \ {0}
ASSUME GuiTyped == "0" \in Typed

VARIABLES platform,                      \* "windows" or "unix"
          argv, i, opts,                 \* the command line, and what was made of it
          mpc, nest, then,               \* main: where, in which message loop, what after a join
          closed, freed, signalled,      \* the window; WinGui; stop_requested of main.c
          settings, running,             \* of WinGui
          status, frame, paint, lock,
          pconfig, thread_active, stop_requested, ppc,   \* of gui_pipeline
          source, started, cpc, incoming \* the source, its configuration; its decode thread

argVars == <<platform, argv, i, opts>>
winVars == <<mpc, nest, then, closed, freed>>
imgVars == <<frame, paint>>
pipeVars == <<pconfig, thread_active, stop_requested, ppc>>
srcVars == <<source, started, cpc, incoming>>
vars == <<argVars, winVars, imgVars, pipeVars, srcVars, signalled, settings, running, status, lock>>

Flags == {"--gui", "--no-hw"}
ValueOptions == {"--width", "--format"}

\* atoi and parse_format of the words that occur.
atoi(w) == IF w = "640" THEN 640 ELSE 0
parse_format(w) == CASE w \in {"hevc", "h265"} -> "hevc"
                     [] w \in {"jpg", "mjpg", "mjpeg"} -> "jpg"
                     [] OTHER -> "avc"

Defaults == [gui |-> FALSE, phone |-> "none", url |-> "default", width |-> 1280,
             format |-> "avc", hw |-> TRUE]

NoImage == [buf |-> 0, pixels |-> 0, size |-> 0]

Init == /\ platform \in {"windows", "unix"}
        /\ argv \in CommandLines /\ i = 1 /\ opts = Defaults
        /\ mpc = "args" /\ nest = "loop" /\ then = "none"
        /\ closed = FALSE /\ freed = FALSE /\ signalled = FALSE
        /\ settings = "a" /\ running = FALSE /\ status = "enter"
        /\ frame = NoImage /\ paint = NoImage /\ lock = "none"
        /\ pconfig = "none" /\ thread_active = FALSE /\ stop_requested = FALSE /\ ppc = "none"
        /\ source = FALSE /\ started = "none" /\ cpc = "none" /\ incoming = 0

MGoto(from, to) == mpc = from /\ mpc' = to

-----------------------------------------------------------------------------
\* One round of main's loop over argv: an option without its value, or an
\* unknown one, is taken for an argument.
ParseArg ==
  /\ mpc = "args" /\ i <= Len(argv)
  /\ LET a == argv[i]
         valued == a \in ValueOptions /\ i < Len(argv)
     IN /\ opts' = CASE a = "--gui" -> [opts EXCEPT !.gui = TRUE]
                     [] a = "--no-hw" -> [opts EXCEPT !.hw = FALSE]
                     [] a = "--width" /\ valued -> [opts EXCEPT !.width = atoi(argv[i + 1])]
                     [] a = "--format" /\ valued -> [opts EXCEPT !.format = parse_format(argv[i + 1])]
                     [] OTHER -> IF opts.phone = "none" THEN [opts EXCEPT !.phone = a]
                                                        ELSE [opts EXCEPT !.url = a]
        /\ i' = IF valued THEN i + 2 ELSE i + 1
  /\ UNCHANGED <<platform, argv, winVars, imgVars, pipeVars, srcVars, signalled, settings,
                 running, status, lock>>

\* The checks, net_init and, in GUI mode, gui_create: each may end it.
Parsed ==
  /\ mpc = "args" /\ i > Len(argv)
  /\ mpc' \in IF opts.width <= 0 \/ (opts.phone = "none" /\ (~opts.gui \/ platform = "unix"))
              THEN {"exit"}
              ELSE {"exit", IF opts.gui /\ platform = "windows" THEN "loop" ELSE "console"}
  /\ UNCHANGED <<argVars, nest, then, closed, freed, imgVars, pipeVars, srcVars, signalled,
                 settings, running, status, lock>>

-----------------------------------------------------------------------------
\* droidcam_source_start and _stop, by whichever thread calls them.
SourceStart == /\ source' = TRUE /\ cpc' = "idle" /\ UNCHANGED incoming

SourceStop == /\ cpc = "idle"
              /\ source' = FALSE /\ started' = "none" /\ cpc' = "none" /\ UNCHANGED incoming

\* Console mode.
ConsoleStart == /\ mpc = "console"
                /\ \/ mpc' = "exit" /\ UNCHANGED srcVars
                   \/ mpc' = "console_up" /\ SourceStart /\ started' = "argv"
                /\ UNCHANGED <<argVars, nest, then, closed, freed, imgVars, pipeVars, signalled,
                               settings, running, status, lock>>

ConsoleStop == /\ MGoto("console_up", "exit") /\ signalled /\ SourceStop
               /\ UNCHANGED <<argVars, nest, then, closed, freed, imgVars, pipeVars, signalled,
                              settings, running, status, lock>>

\* console_handler, handle_signal.  Nothing looks at it in GUI mode.
Signal == /\ mpc = "console_up" /\ ~signalled /\ signalled' = TRUE
          /\ UNCHANGED <<argVars, winVars, imgVars, pipeVars, srcVars, settings, running, status, lock>>

-----------------------------------------------------------------------------
\* Messages of the window; the loop of the dialog gets them too.
Looping == mpc \in {"loop", "dialog"} /\ ~closed

WKeeps == UNCHANGED <<argVars, signalled, srcVars, freed>>

\* request_start and gui_start_pipeline: the strings are copied.  (Nothing
\* is started if a thread is active; without running none is.)
Connect == /\ mpc = "loop" /\ Looping /\ ~running /\ ~thread_active
           /\ pconfig' = settings /\ stop_requested' = FALSE
           /\ ppc' = "connecting" /\ thread_active' = TRUE /\ running' = TRUE
           /\ WKeeps /\ UNCHANGED <<mpc, nest, then, closed, imgVars, settings, status, lock>>

ConnectFail == /\ mpc = "loop" /\ Looping /\ ~running /\ ~thread_active /\ lock = "none"
               /\ pconfig' = settings /\ stop_requested' = FALSE /\ status' = "failed to start"
               /\ WKeeps /\ UNCHANGED <<mpc, nest, then, closed, imgVars, settings, lock, ppc,
                                        thread_active, running>>

\* Mutant: the pipeline is stopped inside the critical section.
BeginStopLocked(to) == /\ stop_requested' = TRUE /\ mpc' = "join" /\ then' = to
                       /\ lock = "none" /\ lock' = "window"

\* request_stop up to the join in gui_stop_pipeline.
BeginStop(to) == /\ stop_requested' = TRUE /\ mpc' = "join" /\ then' = to
                 /\ UNCHANGED lock

Disconnect == /\ mpc = "loop" /\ Looping /\ running /\ BeginStop("loop")
              /\ WKeeps /\ UNCHANGED <<nest, closed, imgVars, settings, status, pconfig,
                                       thread_active, ppc, running>>

\* WM_CLOSE; not stopped by the dialog, though the window is disabled.
Close == /\ Looping
         /\ IF running THEN BeginStop("quit")
                       ELSE mpc' = "quit" /\ UNCHANGED <<then, stop_requested, lock>>
         /\ nest' = mpc
         /\ WKeeps /\ UNCHANGED <<closed, imgVars, settings, status, pconfig, thread_active,
                                  ppc, running>>

\* Mutant: the pipeline thread is not waited for.
JoinedAtOnce == lock \in {"none", "window"}

\* pthread_join returns.  Then the status is set, under the lock.
Joined == ppc = "done" /\ lock \in {"none", "window"}

EndStop == /\ mpc = "join" /\ Joined
           /\ mpc' = then /\ then' = "none"
           /\ thread_active' = FALSE /\ running' = FALSE /\ status' = "enter" /\ lock' = "none"
           /\ WKeeps /\ UNCHANGED <<nest, closed, imgVars, settings, pconfig, stop_requested, ppc>>

\* DestroyWindow posts WM_QUIT.  GetMessage returns 0 for it and ends the
\* loop it is called in: the dialog's, if that is open, and then gui_run
\* waits for messages of a window that is gone.
Quit == /\ mpc = "quit" /\ closed' = TRUE
        /\ mpc' = IF nest = "dialog" THEN "loop" ELSE "finish"
        /\ nest' = "loop"
        /\ WKeeps /\ UNCHANGED <<then, imgVars, settings, running, status, lock, pipeVars>>

\* gui_stop_pipeline has nothing left to stop; gui_destroy.
Finish == /\ MGoto("finish", "exit") /\ freed' = TRUE
          /\ UNCHANGED <<argVars, nest, then, closed, imgVars, pipeVars, srcVars, signalled,
                         settings, running, status, lock>>

OpenSettings == /\ mpc = "loop" /\ Looping /\ mpc' = "dialog"
                /\ WKeeps /\ UNCHANGED <<nest, then, closed, imgVars, settings, running, status,
                                         lock, pipeVars>>

\* Save: numbers that are not positive become the default; Cancel.
CloseSettings == /\ mpc = "dialog" /\ Looping /\ mpc' = "loop"
                 /\ \/ \E t \in Typed : settings' = IF t = "0" THEN "default" ELSE t
                    \/ UNCHANGED settings
                 /\ WKeeps /\ UNCHANGED <<nest, then, closed, imgVars, running, status, lock, pipeVars>>

-----------------------------------------------------------------------------
\* Mutant: the preview is painted without the lock.
PaintUnlocked == TRUE

\* EnterCriticalSection of paint_preview.
PaintEnters == lock = "none"

\* WM_PAINT, from the timer: the picture is copied, unless there is none or
\* no memory for it, and drawn.
Paint == /\ Looping /\ PaintEnters
         /\ \/ /\ frame.size > 0
               /\ paint' = [buf |-> IF paint.buf < frame.size THEN frame.size ELSE paint.buf,
                            pixels |-> frame.pixels, size |-> frame.size]
            \/ (frame.size = 0 \/ paint.buf < frame.size) /\ UNCHANGED paint
         /\ UNCHANGED <<argVars, winVars, frame, pipeVars, srcVars, signalled, settings, running,
                        status, lock>>

\* gui_set_frame, by the decode thread: enter and make room; copy; leave.
FrameEnter == /\ cpc = "idle" /\ opts.gui /\ platform = "windows" /\ lock = "none"
              /\ \E s \in Sizes :
                   \/ /\ incoming' = s /\ cpc' = "copy" /\ lock' = "decode"
                      /\ frame' = [frame EXCEPT !.buf = IF @ < s THEN s ELSE @]
                   \/ frame.buf < s /\ UNCHANGED <<incoming, cpc, lock, frame>>
              /\ UNCHANGED <<argVars, winVars, paint, pipeVars, source, started, signalled,
                             settings, running, status>>

FrameCopy == /\ cpc = "copy" /\ cpc' = "leave"
             /\ frame' = [frame EXCEPT !.pixels = incoming]
             /\ UNCHANGED <<argVars, winVars, paint, pipeVars, source, started, incoming, signalled,
                            settings, running, status, lock>>

FrameLeave == /\ cpc = "leave" /\ cpc' = "idle"
              /\ frame' = [frame EXCEPT !.size = incoming]
              /\ incoming' = 0 /\ lock' = "none"
              /\ UNCHANGED <<argVars, winVars, paint, pipeVars, source, started, signalled,
                             settings, running, status>>

-----------------------------------------------------------------------------
\* gui_pipeline_thread; gui_set_status is one step of its own, when the lock
\* is free.
gui_set_status(from, to, text) ==
  /\ ppc = from /\ ppc' = to
  /\ lock = "none" /\ status' = text
  /\ UNCHANGED <<argVars, winVars, imgVars, pconfig, thread_active, stop_requested, srcVars,
                 signalled, settings, running, lock>>

PipelineStart == /\ ppc = "start"
                 /\ \/ ppc' = "start_failed" /\ UNCHANGED srcVars
                    \/ ppc' = "started" /\ SourceStart /\ started' = pconfig
                 /\ UNCHANGED <<argVars, winVars, imgVars, pconfig, thread_active, stop_requested,
                                signalled, settings, running, status, lock>>

PipelineStop == /\ ppc = "wait" /\ stop_requested /\ SourceStop
                /\ ppc' = "stopped"
                /\ UNCHANGED <<argVars, winVars, imgVars, pconfig, thread_active, stop_requested,
                               signalled, settings, running, status, lock>>

Pipeline == \/ gui_set_status("connecting", "start", "connecting")
            \/ PipelineStart
            \/ gui_set_status("start_failed", "done", "failed")
            \/ gui_set_status("started", "wait", "connected")
            \/ PipelineStop
            \/ gui_set_status("stopped", "done", "waiting")

\* What main does unasked, and what the user does.
Main == ParseArg \/ Parsed \/ ConsoleStart \/ ConsoleStop \/ EndStop \/ Quit \/ Finish

User == Connect \/ ConnectFail \/ Disconnect \/ Close \/ OpenSettings \/ CloseSettings \/ Signal

Ended == (mpc = "exit" \/ (mpc = "loop" /\ closed)) /\ UNCHANGED vars

Next == \/ Main \/ User \/ Paint \/ Pipeline \/ FrameEnter \/ FrameCopy \/ FrameLeave \/ Ended

\* Threads are scheduled; a critical section that is free again and again is
\* entered; nobody has to click, and no picture has to come.
Fairness == /\ WF_vars(Main) /\ SF_vars(EndStop) /\ SF_vars(Pipeline)
            /\ WF_vars(FrameCopy) /\ WF_vars(FrameLeave)

Spec == Init /\ [][Next]_vars /\ Fairness

-----------------------------------------------------------------------------
(* What is drawn is one picture: the pixels copied belong to the size they *)
(* are drawn with and fit the buffer, although the decode thread writes    *)
(* the next picture, perhaps of another size, at the same time.            *)
PaintedWhole == paint.pixels = paint.size /\ paint.buf >= paint.size

(* WinGui is freed when nobody can call into it any more: the pipeline     *)
(* thread, whose last act is to set the status, has ended, and so has the  *)
(* decode thread that delivers pictures.                                   *)
NoUseAfterDestroy == freed => ppc \in {"none", "done"} /\ cpc = "none" /\ ~thread_active

\* Mutant: the source is given the window's own strings.
SourceReadsWindow == IF started = "argv" THEN "argv" ELSE settings

\* What the source reads through device_ip, device_id and rtsp_url.
SourceReads == IF started = "argv" THEN "argv" ELSE pconfig

\* The words that are values of options, and the other words.
Valued[k \in Nat] == k > 1 /\ argv[k - 1] \in ValueOptions /\ ~Valued[k - 1]
Arguments == {k \in DOMAIN argv : ~Valued[k] /\ argv[k] \notin Flags \cup ValueOptions}
LastValue(option) == {k \in DOMAIN argv : /\ Valued[k] /\ argv[k - 1] = option
                                     /\ \A l \in k + 1..Len(argv) : ~(Valued[l] /\ argv[l - 1] = option)}

(* A source runs with what the user asked for, and goes on with it: in     *)
(* console mode the command line as the usage line describes it, options   *)
(* in any order; in the window the settings of the moment Connect was      *)
(* clicked, whatever is saved while it runs.                               *)
SessionConfig ==
  /\ source => SourceReads = started
  /\ started = "argv" /\ (argv[Len(argv)] \in ValueOptions => Valued[Len(argv)]) =>
       /\ \A k \in Arguments : (\A l \in Arguments : k <= l) => opts.phone = argv[k]
       /\ \A k \in Arguments : (\A l \in Arguments : k >= l) =>
            opts.url = IF Cardinality(Arguments) > 1 THEN argv[k] ELSE Defaults.url
       /\ \A k \in LastValue("--width") : opts.width = atoi(argv[k])
       /\ \A k \in LastValue("--format") : opts.format = parse_format(argv[k])
       /\ opts.hw = ("--no-hw" \notin {argv[k] : k \in {l \in DOMAIN argv : ~Valued[l]}})

(* Closing the window ends the program and Disconnect comes back: main     *)
(* waits for the pipeline thread while that, and the decode thread it      *)
(* waits for, need the lock.  Only a close while the settings are open is  *)
(* not covered: its WM_QUIT is swallowed.                                  *)
CloseEnds == /\ (mpc \in {"join", "quit"} /\ nest = "loop" /\ then # "loop") ~> mpc = "exit"
             /\ (mpc = "join" /\ then = "loop") ~> mpc = "loop"
=============================================================================
