---------------------------- MODULE MCHttpWorker ----------------------------
(* Instances of HttpWorker for TLC.                                         *)
EXTENDS HttpWorker

CONSTANTS c1, c2, c3, w1, w2

get      == << "part", "request", "header", "blank" >>
post     == << "request", "length2", "blank", "b1", "b2" >>
big      == << "request", "length3", "blank", "b1", "b2", "b3" >>
no_value == << "request", "junk", "blank" >>

TwoClients   == { c1, c2 }
ThreeClients == { c1, c2, c3 }
OneWorker    == { w1 }
TwoWorkers   == { w1, w2 }

Valid    == { get, post }
AnyOf    == { post, big, no_value }
OnlyGet  == { get }
OnlyPost == { post }

(* The requests of the runs are those the theorems speak of.                *)
ASSUME InstancesFramed == \A r \in Requests : Framed(r) /\ PlainBody(r)
=============================================================================
