---------------------------- MODULE ProgramText ----------------------------
(***************************************************************************)
(* The vocabulary in which the example programs of the repository are      *)
(* written down.  A program is a sequence of statements; what a statement  *)
(* says is which resources a call needs, which it acquires or releases,    *)
(* what the code does when the call fails, and where control goes next.    *)
(* Resources are named by strings (a connection, a context, a file, a      *)
(* window, a buffer); values are things that are assigned and used but     *)
(* need no release (an option read from the command line, a parsed port).  *)
(* Module Examples gives the statements their meaning.                     *)
(***************************************************************************)
EXTENDS Sequences

\* A call that needs the resources and values u and that the code does not
\* expect to fail.
Do(u) == [op |-> "do", uses |-> u]

\* A call that is given u without a look at whether they are there, on a path
\* on which they may not be: then the process ends in it, or the callee lets
\* it pass.
Blind(u) == [op |-> "blind", uses |-> u]

\* A call that needs u; when it fails the code runs h and then whatever
\* follows, unless h leaves.
Try(u, h) == [op |-> "try", uses |-> u, fail |-> h]

\* A call that needs u and yields resource r, or fails: then h.
Get(r, u, h) == [op |-> "get", res |-> r, in |-> {}, uses |-> u, fail |-> h]

\* The same for a resource that lives inside the resources p: they may not
\* be released before it.
GetIn(r, p, u, h) == [op |-> "get", res |-> r, in |-> p, uses |-> p \cup u, fail |-> h]

\* A call that yields r and whose failure the code does not look at; that it
\* succeeds is an assumption on the environment.
New(r, u) == [op |-> "new", res |-> r, in |-> {}, uses |-> u]
NewIn(r, p, u) == [op |-> "new", res |-> r, in |-> p, uses |-> p \cup u]

\* r is released; r is released if it is held (the code tests a pointer).
Put(r) == [op |-> "put", res |-> r]
PutIf(r) == [op |-> "putif", res |-> r]

\* Value v gets defined, or loses its meaning.
Set(v) == [op |-> "set", res |-> v]
Unset(v) == [op |-> "unset", res |-> v]

\* One of the branches bs, on data the model leaves open.
Alt(bs) == [op |-> "alt", of |-> bs]
Maybe(b) == Alt(<<b, <<>> >>)

\* A test of whether r is held or defined.
If(r, yes, no) == [op |-> "if", res |-> r, yes |-> yes, no |-> no]

\* while (data) b;  and  for (;;) b;
Loop(b) == [op |-> "loop", body |-> b]
Forever(b) == [op |-> "forever", body |-> b]

\* A function with body b; h is what the caller does when it fails.
Call(b, h) == [op |-> "call", body |-> b, fail |-> h]

\* Leaving a loop, its iteration, a function (successfully or not), or the
\* process.
Break == [op |-> "break"]
Continue == [op |-> "continue"]
Return == [op |-> "return"]
Fail == [op |-> "fail"]
Exit == [op |-> "exit"]
Quit == [op |-> "quit"]

\* Threads.
Spawn(t, b) == [op |-> "spawn", res |-> t, body |-> b]
Join(t) == [op |-> "join", res |-> t]

\* Releases of several resources, in order.
Puts(rs) == [i \in DOMAIN rs |-> Put(rs[i])]

\* A program: its text, the resources it leaves behind when it ends normally
\* and those that it leaves behind, besides, when it ends on a failure.
Program(text, left, lost) == [text |-> text, left |-> left, lost |-> lost]
=============================================================================
