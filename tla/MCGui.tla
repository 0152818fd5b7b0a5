------------------------------- MODULE MCGui -------------------------------
(* Command lines of up to four words for the console, and with --gui.      *)
EXTENDS Gui, SequencesExt

Words == {"--no-hw", "--width", "640", "--format", "hevc", "ip", "url"}

MCCommandLines == BoundedSeq(Words, 4)
                  \cup {<<"--gui">>, <<"--gui", "ip">>, <<"ip", "--gui", "--width", "ip">>}
=============================================================================
