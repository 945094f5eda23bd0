---------------------------- MODULE Annotations ----------------------------
(***************************************************************************)
(* Phase 0 of an analyzer pass (pkg/analyzer/annotations.go): the comment  *)
(* directives mu:concurrent, mu:ignore and mu:nolint of a source file.     *)
(*                                                                         *)
(* A file is its function declarations in order, with the lines of `func'  *)
(* and of the closing brace, and its directives with their lines.  A comment   *)
(* on the line of the closing brace comes after the body.                  *)
(***************************************************************************)
EXTENDS CallGraph

Declarations == [fn : Funcs, line : Nat, last : Nat]
Directives == [kind : {"concurrent", "ignore", "nolint"}, line : Nat]

Inside(c, fd) == fd.line <= c.line /\ c.line < fd.last

\* The declaration a directive belongs to: the first one that starts on its line or
\* on the next, or that has it in its body.
findFuncForComment(decls, c) ==
    LET match == {i \in DOMAIN decls : decls[i].line \in {c.line, c.line + 1} \/ Inside(c, decls[i])}
    IN  {decls[i].fn : i \in {j \in match : \A k \in match : j <= k}}

Marked(decls, comments, kind) ==
    UNION {findFuncForComment(decls, c) : c \in {d \in comments : d.kind = kind}}

parseAnnotations(decls, comments) ==
    [concurrent |-> Marked(decls, comments, "concurrent"),
     ignored    |-> Marked(decls, comments, "ignore"),
     nolint     |-> {c.line + 1 : c \in {d \in comments : d.kind = "nolint"}}]

isSuppressed(annotations, f, line) == f \in annotations.ignored \/ line \in annotations.nolint
=============================================================================
