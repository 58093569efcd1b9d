------------------------------ MODULE Examples ------------------------------
(***************************************************************************)
(* What the example programs do with the things they acquire.  Every       *)
(* program of the family modules is a text in the vocabulary of            *)
(* ProgramText; a behaviour runs one of them, with every call that can     *)
(* fail failing or not, every branch on data taken or not and its threads  *)
(* interleaved.                                                            *)
(***************************************************************************)
EXTENDS Naturals, FiniteSets, SequencesExt, ProgramText

CONSTANT Programs    \* name -> Program(text, left, lost)

VARIABLES prog,   \* the program that runs
          k,      \* per thread started: the statements it still has to run
          owner,  \* the resources held, each with those it lives inside
          vals,   \* the values defined
          end     \* "no", "ok", "failed" or "crashed": how the process ended

vars == <<prog, k, owner, vals, end>>

Held == DOMAIN owner
Running(t) == end = "no" /\ t \in DOMAIN k /\ k[t] # <<>>

\* Thread t is about to run a statement of kind o.
At(t, o) == Running(t) /\ Head(k[t]).op = o
Here(t) == Head(k[t])
Rest(t) == Tail(k[t])

Goes(t, s) == k' = [k EXCEPT ![t] = s]
Keeps == UNCHANGED <<owner, vals>>

\* Marks left in what is to run: the end of a loop's body, of a function.
Again(s) == [op |-> "again", loop |-> s]
Ret(s) == [op |-> "ret", fail |-> s.fail]

\* What follows the first mark of kind o; the mark itself is its head.
From(s, o) ==
    LET i == SelectInSeq(s, LAMBDA x : x.op = o)
    IN IF i = 0 THEN <<>> ELSE SubSeq(s, i, Len(s))

(***************************************************************************)
(* The statements.                                                         *)
(***************************************************************************)
Needs(t) == At(t, "do") /\ Goes(t, Rest(t)) /\ Keeps /\ UNCHANGED end

\* What is not there when a call gets it unlooked-at may end the process.
Risks(t) ==
    /\ At(t, "blind")
    /\ \/ Goes(t, Rest(t)) /\ UNCHANGED end
       \/ ~(Here(t).uses \subseteq Held \cup vals) /\ Goes(t, <<>>) /\ end' = "crashed"
    /\ Keeps

Tries(t) == /\ At(t, "try")
            /\ Goes(t, Rest(t)) \/ Goes(t, Here(t).fail \o Rest(t))
            /\ Keeps /\ UNCHANGED end

Hold(t) == owner' = [r \in Held \cup {Here(t).res} |->
                        IF r = Here(t).res THEN Here(t).in ELSE owner[r]]

Acquires(t) ==
    /\ At(t, "get") \/ At(t, "new")
    /\ \/ Hold(t) /\ Goes(t, Rest(t))
       \/ Here(t).op = "get" /\ Goes(t, Here(t).fail \o Rest(t)) /\ UNCHANGED owner
    /\ UNCHANGED <<vals, end>>

Releases(t) ==
    /\ At(t, "put") \/ At(t, "putif")
    /\ owner' = [r \in Held \ {Here(t).res} |-> owner[r]]
    /\ Goes(t, Rest(t))
    /\ UNCHANGED <<vals, end>>

Assigns(t) ==
    /\ At(t, "set") \/ At(t, "unset")
    /\ vals' = IF Here(t).op = "set" THEN vals \cup {Here(t).res} ELSE vals \ {Here(t).res}
    /\ Goes(t, Rest(t))
    /\ UNCHANGED <<owner, end>>

Branches(t) ==
    /\ \/ /\ At(t, "alt")
          /\ \E i \in DOMAIN Here(t).of : Goes(t, Here(t).of[i] \o Rest(t))
       \/ /\ At(t, "if")
          /\ Goes(t, (IF Here(t).res \in Held \cup vals THEN Here(t).yes ELSE Here(t).no)
                       \o Rest(t))
    /\ Keeps /\ UNCHANGED end

\* A loop is entered or skipped; at the end of its body it is run again or
\* left; `forever` is only left by a break, a return or an exit.
Repeats(t) ==
    /\ \/ /\ At(t, "loop") \/ At(t, "forever")
          /\ \/ Here(t).op = "loop" /\ Goes(t, Rest(t))
             \/ Goes(t, Here(t).body \o <<Again(Here(t))>> \o Rest(t))
       \/ /\ At(t, "again")
          /\ \/ Here(t).loop.op = "loop" /\ Goes(t, Rest(t))
             \/ Goes(t, Here(t).loop.body \o k[t])
       \/ At(t, "break") /\ Goes(t, Tail(From(k[t], "again")))
       \/ At(t, "continue") /\ Goes(t, From(k[t], "again"))
    /\ Keeps /\ UNCHANGED end

Calls(t) ==
    /\ \/ At(t, "call") /\ Goes(t, Here(t).body \o <<Ret(Here(t))>> \o Rest(t))
       \/ At(t, "ret") /\ Goes(t, Rest(t))
    /\ Keeps /\ UNCHANGED end

\* A return goes to the end of the function, and a failing one to what the
\* caller does about it; outside of any function the thread ends, and with
\* the main thread the process.
Leaves(t) ==
    LET r == From(k[t], "ret") IN
    /\ At(t, "return") \/ At(t, "fail")
    /\ \/ r = <<>> /\ Goes(t, <<>>)
          /\ end' = IF Here(t).op = "fail" /\ t = "main" THEN "failed" ELSE end
       \/ /\ r # <<>>
          /\ Goes(t, IF Here(t).op = "fail" THEN Head(r).fail \o Tail(r) ELSE Tail(r))
          /\ UNCHANGED end
    /\ Keeps

Exits(t) ==
    /\ At(t, "exit") \/ At(t, "quit")
    /\ end' = IF Here(t).op = "exit" THEN "failed" ELSE "ok"
    /\ Goes(t, <<>>)
    /\ Keeps

ThreadCalls(t) ==
    /\ \/ /\ At(t, "spawn")
          /\ k' = [u \in DOMAIN k \cup {Here(t).res} |->
                      IF u = t THEN Rest(t) ELSE IF u = Here(t).res THEN Here(t).body ELSE k[u]]
       \/ /\ At(t, "join")
          /\ Here(t).res \in DOMAIN k => k[Here(t).res] = <<>>
          /\ Goes(t, Rest(t))
    /\ UNCHANGED <<owner, vals, end>>

\* main has run to its end.
Finishes == /\ end = "no"
            /\ k["main"] = <<>>
            /\ end' = "ok"
            /\ UNCHANGED <<k, owner, vals>>

-----------------------------------------------------------------------------
Init == /\ prog \in DOMAIN Programs
        /\ k = [t \in {"main"} |-> Programs[prog].text]
        /\ owner = <<>>
        /\ vals = {}
        /\ end = "no"

Step(t) == \/ Needs(t) \/ Risks(t) \/ Tries(t) \/ Acquires(t) \/ Releases(t) \/ Assigns(t)
           \/ Branches(t) \/ Repeats(t) \/ Calls(t) \/ Leaves(t) \/ Exits(t)
           \/ ThreadCalls(t)

Next == /\ \/ \E t \in DOMAIN k : Step(t)
           \/ Finishes
           \/ end # "no" /\ UNCHANGED <<k, owner, vals, end>>
        /\ UNCHANGED prog

Spec == Init /\ [][Next]_vars

-----------------------------------------------------------------------------
\* No call of any program gets something that was never acquired or defined
\* on the way there, or that has been released already: on no failing path
\* and in no interleaving of its threads.  The exceptions are the statements
\* written Blind, one by one; and the calls written New, whose results nobody
\* looks at, are assumed to succeed.
UsesLive ==
    \A t \in DOMAIN k : Running(t) /\ Here(t).op \in {"do", "try", "get", "new"}
        => Here(t).uses \subseteq Held \cup vals

\* Nothing is released that is not held, and nothing held is acquired over,
\* which would lose it, but for what the program is said to leave behind.
ReleasedOnce ==
    \A t \in DOMAIN k :
        /\ At(t, "put") => Here(t).res \in Held
        /\ At(t, "get") \/ At(t, "new") => Here(t).res \notin Held \ Programs[prog].left

\* What lives inside a resource (a statement in its connection, a window in
\* its screen) is gone when that resource is released.
OwnersOutlive ==
    \A t \in DOMAIN k :
        At(t, "put") \/ At(t, "putif") => \A r \in Held : Here(t).res \notin owner[r]

\* A program that ends normally has released everything, but for what its
\* text names; one that ends on a failure leaves no more than its text says.
CleanEnd ==
    /\ end = "ok" => Held \subseteq Programs[prog].left
    /\ end = "failed" => Held \subseteq Programs[prog].left \cup Programs[prog].lost
=============================================================================
