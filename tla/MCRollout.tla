----------------------------- MODULE MCRollout -----------------------------
(* Instances of Rollout for TLC.                                           *)
EXTENDS Rollout, TLC

Good(slot) == [hot |-> 0, slot |-> slot, sections |-> {"a"}, loads |-> TRUE, fits |-> TRUE]

With(file, g) == [mode |-> "restart", files |-> "f" :> file @@ "g" :> g, renders |-> TRUE]

Only(file) == [mode |-> "restart", files |-> "f" :> file, renders |-> TRUE]

Base == Good("s1")

\* What the file of one source is edited to, beside a source that stays.
FileEdits == {
    Base,
    [Base EXCEPT !.hot = 1, !.slot = "s3"],
    [Base EXCEPT !.sections = {"b", Special}],
    [Base EXCEPT !.loads = FALSE]}

Signalling(s) == [s EXCEPT !.mode = "signal"]

MCCreated == {With(Base, Good("s2")), Signalling(With(Base, Good("s2")))}

MCSpecs ==
    {Signalling(With(f, Good("s2"))) : f \in FileEdits}
    \cup {With(Base, Good("s2")), With(Base, Base), Only([Base EXCEPT !.fits = FALSE]),
          [With(Base, Good("s2")) EXCEPT !.renders = FALSE]}
=============================================================================
