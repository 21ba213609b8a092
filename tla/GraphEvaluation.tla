-------------------------- MODULE GraphEvaluation --------------------------
(***************************************************************************)
(* What a caller of the Portal may believe: a graph is evaluated operation *)
(* by operation, each on what the earlier ones left in the host's arrays,  *)
(* to the end or to the first that fails; provided that the device of the  *)
(* session is up to the sizes of the operation, for if it is not the       *)
(* result may be anything, and nobody says so.                             *)
(***************************************************************************)
EXTENDS Naturals, Sequences

CONSTANTS
  Arrays, Values,
  Graphs,                  (* Sequences of operations, records with the      *)
                           (* arrays a, b, output and the sizes m, k, n.     *)
  Product(_, _, _, _, _),  (* Product(m, k, n, v, w): of v [m, k] and        *)
                           (* w [k, n].                                      *)
  Capable(_, _, _, _)      (* Capable(s, m, k, n): is the device of session  *)
                           (* s up to it?                                    *)

VARIABLES
  session,  (* where operations are evaluated; this module does not say how  *)
            (* it changes                                                    *)
  host,     (* the value of each array                                       *)
  graph,    (* what is being evaluated; <<>> if nothing is                   *)
  done,     (* how many of its operations are evaluated                      *)
  verdict   (* of the last call; "pending" during one                        *)

vars == <<host, graph, done, verdict>>

Init ==
  /\ host \in [Arrays -> Values]
  /\ graph = <<>>
  /\ done = 0
  /\ verdict = "ok"

HostWrite(x, v) ==
  /\ verdict # "pending"
  /\ host' = [host EXCEPT ![x] = v]
  /\ UNCHANGED <<graph, done, verdict>>

Submit(g) ==
  /\ verdict # "pending"
  /\ graph' = g
  /\ done' = 0
  /\ verdict' = "pending"
  /\ UNCHANGED host

\* A call that is turned down at once.
Decline == verdict # "pending" /\ verdict' = "failed" /\ UNCHANGED <<host, graph, done>>

Return(v) == verdict' = v /\ graph' = <<>> /\ done' = 0

\* The operation to evaluate next.
Current == graph[done + 1]

Evaluate ==
  /\ verdict = "pending"
  /\ done < Len(graph)
  /\ {Current.a, Current.b, Current.output} \subseteq Arrays
  /\ \E v \in Values :
       /\ Capable(session, Current.m, Current.k, Current.n) =>
            v = Product(Current.m, Current.k, Current.n, host[Current.a], host[Current.b])
       /\ host' = [host EXCEPT ![Current.output] = v]
  /\ done' = done + 1
  /\ UNCHANGED <<graph, verdict>>

\* An operation fails, and only its own output may be lost.
GiveUp ==
  /\ verdict = "pending"
  /\ done < Len(graph)
  /\ Return("failed")
  /\ \/ UNCHANGED host
     \/ \E v \in Values : /\ Current.output \in Arrays
                          /\ host' = [host EXCEPT ![Current.output] = v]

Complete ==
  /\ verdict = "pending"
  /\ done = Len(graph)
  /\ Return("ok")
  /\ UNCHANGED host

Next ==
  \/ \E x \in Arrays, v \in Values : HostWrite(x, v)
  \/ \E g \in Graphs : Submit(g)
  \/ Decline \/ Evaluate \/ GiveUp \/ Complete

Spec == Init /\ [][Next]_vars

=============================================================================
