------------------------------ MODULE MCPolicy ------------------------------
(* Constants of the TLC run of Policy: a work directory with two parts.    *)
EXTENDS Policy

CONSTANT t1

OneTask == {t1}

W  == <<"w">>
A  == <<"w", "a">>
AX == <<"w", "a", "x">>
B  == <<"w", "b">>
H  == <<"h">>

SomePaths == {W, A, AX, B, H, <<"w", "a", "..", "b">>}

Host(path) == [path |-> path, trust |-> "host"]
Work(path) == [path |-> path, trust |-> "work_dir"]
P(read, write, net) == [read |-> read, write |-> write, net |-> net]

(* Everything under w and h, or only w/a. *)
SomeOperators ==
  {P(<<Host(W), Host(H)>>, <<Work(W), Host(H)>>, {"web"}),
   P(<<Host(A)>>, <<Work(<<"w", "b", "..", "a">>)>>, {})}

SomeTenants ==
  {P(<<Host(W)>>, <<Work(A), Host(H)>>, {"web"}),
   P(<<Host(A), Host(B)>>, <<Work(A)>>, {}),
   P(<<Host(AX), Host(H)>>, <<>>, {"web"})}

SomeRequests ==
  {Strict,
   P(<<Host(A)>>, <<Work(AX), Host(H)>>, {"web"}),
   P(<<Host(<<"w", "a", "..", "b">>)>>, <<>>, {}),
   P(<<Host(AX)>>, <<Work(A)>>, {})}
=============================================================================
