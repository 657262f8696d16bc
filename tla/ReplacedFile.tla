----------------------------- MODULE ReplacedFile -----------------------------
(***************************************************************************)
(* What a replacement of the container promises, whatever files it goes    *)
(* through: the content changes at the instant it succeeds, to all that    *)
(* was written, and not at all when it fails or its process dies.  Only    *)
(* success among replacements that were under way at the same time spoils  *)
(* it, until the next one that meets no other.  AtomicReplace implements   *)
(* this specification.                                                     *)
(***************************************************************************)
CONSTANTS
    Writer,  \* replacements
    Nothing,
    Torn     \* any content, or none

VARIABLES
    content,  \* who wrote what is there; Nothing when it was there before
    underway, \* replacements that have begun and not ended
    met,      \* some of them were under way at the same time
    outcome   \* what each reported, or Nothing

vars == <<content, underway, met, outcome>>

Init ==
    /\ content = Nothing
    /\ underway = {}
    /\ met = FALSE
    /\ outcome = [w \in Writer |-> Nothing]

Begin(w) ==
    /\ w \notin underway /\ outcome[w] = Nothing
    /\ underway' = underway \union {w}
    /\ met' = (underway # {})
    /\ UNCHANGED <<content, outcome>>

Ends(w, o) ==
    /\ w \in underway
    /\ underway' = underway \ {w}
    /\ outcome' = [outcome EXCEPT ![w] = o]
    /\ UNCHANGED met

Replace(w) ==
    /\ Ends(w, "ok")
    /\ content' = IF met THEN Torn ELSE w

Fail(w) ==
    /\ Ends(w, "error")
    /\ UNCHANGED content

Next == \E w \in Writer : Begin(w) \/ Replace(w) \/ Fail(w)

Spec == Init /\ [][Next]_vars
===============================================================================
