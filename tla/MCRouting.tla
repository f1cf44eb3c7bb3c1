----------------------------- MODULE MCRouting ------------------------------
(* Two requests at once; the limits are those of the probe's gateway. *)
EXTENDS Routing

CONSTANTS r1, r2

EitherRequest == Permutations(Requests)

\* One is asked when the latest call is over 30 seconds old, and two are not for
\* safe control.
MCMessages == {Plain, Old(Failed), Message({"pinned"}), Message({"completion"})}

MCCommands == {Command("test", "workspace", "timeout")}

\* A decision that names its action: the action of the strongest model with the
\* cheap one, and the end of the episode.
Explicit(strong, action) == [Judge(Plain) EXCEPT !.strong = strong,
                                                 !.action = action]
MCExplicit ==
    {Explicit(FALSE, "premium_recover"), Explicit(TRUE, "completion_guardrail")}

\* Those, and what the probe's decision model says.
MCAnswers == {Judge(Plain), Judge(Message({"implement"}))} \cup MCExplicit
=============================================================================
