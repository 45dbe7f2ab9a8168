--------------------------- MODULE MCServiceProbes ---------------------------
(* Two jobs on one resource.  The pairs of scenarios are those that use the *)
(* same state of the cloud; the configurations those the pair can tell      *)
(* apart.                                                                   *)
EXTENDS ServiceProbes

CONSTANTS j1, j2, n1, n2, alias2, ghost

MCJobs == {j1, j2}
MCSpellings == {n1, n2, alias2, ghost}
MCResolved == [s \in MCSpellings |->
                 CASE s = n1 -> n1 [] s \in {n2, alias2} -> n2 [] s = ghost -> NoNetwork]

Pairs(scenarios, others) == {[j \in MCJobs |-> IF j = j1 THEN s ELSE t] : s \in scenarios, t \in others}

NoLists == [k \in {"allow", "disallow"} |-> [yaml |-> {}, csv |-> {}]]

Plain == [private |-> "none", public |-> FALSE, host |-> TRUE, sinks |-> TRUE, byName |-> FALSE,
          threshold |-> 2, overrun |-> 2, requester |-> n1, lists |-> NoLists]

Closed == fn = [exposed |-> FALSE, open |-> FALSE]

Loggers ==
    /\ \/ Begins("serverless-computing", {Plain, [Plain EXCEPT !.sinks = FALSE]},
                 Pairs({"admin"}, {"admin", "write", "read"}) \cup Pairs({"write"}, {"read"}))
       \/ Begins("virtual-machines", {Plain, [Plain EXCEPT !.byName = TRUE]},
                 Pairs({"admin"}, {"write"}) \cup Pairs({"read"}, {"write"}))
       \/ Begins("vpc", {Plain, [Plain EXCEPT !.sinks = FALSE]}, Pairs({"flow"}, {"flow"}))
    /\ Closed /\ limit = None /\ denied = {}

Endpoints ==
    /\ \/ Begins("serverless-computing",
                 {[Plain EXCEPT !.public = b, !.private = p] :
                    b \in BOOLEAN, p \in {"none", "internal-only", "url"}},
                 Pairs({"surface"}, {"public", "private"}) \cup Pairs({"public"}, {"public"}))
       \/ Begins("virtual-machines", {Plain, [Plain EXCEPT !.host = FALSE]},
                 Pairs({"inbound"}, {"inbound"}))
    /\ limit = None /\ denied = {}

Limiters ==
    /\ Begins("serverless-computing",
              {[Plain EXCEPT !.public = b, !.threshold = t, !.overrun = o] :
                 b \in BOOLEAN, t \in Bursts, o \in Bursts},
              Pairs({"rate"}, {"rate", "none"}))
    /\ Closed /\ denied = {}

Peering ==
    /\ Begins("vpc",
              {[Plain EXCEPT !.requester = r,
                             !.lists = [k \in {"allow", "disallow"} |->
                               IF k = "allow" THEN [yaml |-> a, csv |-> c]
                               ELSE [yaml |-> d, csv |-> {}]]] :
                 r \in MCSpellings, a \in SUBSET MCSpellings, d \in SUBSET MCSpellings,
                 c \in {{}, {n1}}},
              Pairs({"disallow", "allow", "unlisted"}, {"none"}))
    /\ Closed /\ limit = None /\ (provider # "aws" => denied = {})
    /\ job[j1].scenario # "unlisted" => config.requester = n1

MCInit == Loggers \/ Endpoints \/ Limiters \/ Peering

MCSpec == MCInit /\ [][Next]_vars
=============================================================================
