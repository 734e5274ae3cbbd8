--------------------------- MODULE RecordingLife ----------------------------
(***************************************************************************)
(* A call's recording as those see it who rely on it.  It is captured      *)
(* once.  An output is made only while the whole of it is on the disk, the *)
(* transcript of a call after its backup, and stays.  What reports an      *)
(* output comes after it; a lasting report stays, another may be           *)
(* forgotten and come again.  Audio leaves the disk when every required    *)
(* output is made, or when nobody asks for it any more, and does not come  *)
(* back.  RecordingPipeline implements this specification.                 *)
(***************************************************************************)
CONSTANTS
    Channel,
    Output,         \* what is made of a recording
    Required,       \* the outputs without which its audio is kept
    Source,         \* the outputs that each output is made from
    Report,         \* the marks that say that an output is in place
    Lasting,        \* those of them that are never taken back
    About           \* the output that each is about

VARIABLES
    over,           \* the capture has ended
    audio,          \* the channels that are on the disk
    spare,          \* those of them that are past their retention
    made,           \* the outputs that are in place
    noted           \* the reports there are

vars == <<over, audio, spare, made, noted>>

Init ==
    /\ over = FALSE
    /\ audio = {} /\ spare = {} /\ made = {} /\ noted = {}

Capture(channels) ==
    /\ ~over /\ over'
    /\ audio' = channels
    /\ UNCHANGED <<made, noted>>

Make(o) ==
    /\ audio = Channel /\ Source[o] \subseteq made
    /\ made' = made \cup {o}
    /\ UNCHANGED <<over, audio, noted>>

Note(m) ==
    /\ About[m] \in made
    /\ noted' = noted \cup {m}
    /\ UNCHANGED <<over, audio, made>>

Forget(m) ==
    /\ noted' = noted \ {m}
    /\ UNCHANGED <<over, audio, made>>

Drop(channels) ==
    /\ (Required # {} /\ Required \subseteq made) \/ channels \subseteq spare
    /\ audio' = audio \ channels
    /\ UNCHANGED <<over, made, noted>>

\* Retention passes, and the room on the disk comes and goes.
Age == UNCHANGED <<over, audio, made, noted>>

Next ==
    /\ spare' \subseteq audio'
    /\ \/ \E channels \in SUBSET Channel : Capture(channels) \/ Drop(channels)
       \/ \E o \in Output : Make(o)
       \/ \E m \in Report : Note(m)
       \/ \E m \in Report \ Lasting : Forget(m)
       \/ Age

Spec == Init /\ [][Next]_vars
=============================================================================
