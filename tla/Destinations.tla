---------------------------- MODULE Destinations ----------------------------
(* Where a pushed file may go. A destination is absolute or not and a sequence of  *)
(* elements, already clean; a protected pattern is one too, in which "*" stands    *)
(* for any element, and protects what it matches or everything below that.         *)
(*   setup.dirs   the directories that exist, with their ancestors;                *)
(*   setup.links  the symbolic links, each to a directory that needs no following. *)
EXTENDS Service

LOCAL INSTANCE SequencesExt
LOCAL INSTANCE FiniteSetsExt

Dir(p) == IF p = <<>> THEN <<>> ELSE Front(p)
Ancestor(p, k) == SubSeq(p, 1, k)
Rest(p, k) == SubSeq(p, k + 1, Len(p))

(* ---- the server's own list ------------------------------------------------------------- *)
IsAbsoluteDestination(dest) == dest.abs

(* Both the server and the agent ask this.                                        *)
MaxPushedFileMode == 2
Validate(push) == IsAbsoluteDestination(push.dest) /\ push.mode <= MaxPushedFileMode

validateRemoteDestination(dest) ==
    /\ \A prefix \in setup.denied.dirs : ~IsPrefix(prefix, dest.at)
    /\ dest.at \notin setup.denied.files
    /\ \A i \in DOMAIN dest.at : dest.at[i] = ".ssh" => i = Len(dest.at)

(* ---- the agent's ----------------------------------------------------------------------- *)
Follow(p) ==
    LET enter(at, e) == LET n == Append(at, e) IN IF n \in DOMAIN setup.links THEN setup.links[n] ELSE n
    IN  FoldLeft(enter, <<>>, p)

(* As far as the path exists it is followed.                                      *)
resolveForMatch(p) ==
    LET k == Max({k \in 0..Len(p) : Follow(Ancestor(p, k)) \in setup.dirs})
    IN  Follow(Ancestor(p, k)) \o Rest(p, k)

literalPrefix(pattern) == Min({k \in DOMAIN pattern : pattern[k] = "*"} \cup {Len(pattern) + 1}) - 1

canonicalPattern(pattern) ==
    LET k == literalPrefix(pattern) IN resolveForMatch(Ancestor(pattern, k)) \o Rest(pattern, k)

Match(pattern, p) == Len(pattern) = Len(p) /\ \A i \in DOMAIN p : pattern[i] \in {"*", p[i]}
pathIsWithin(p, root) == \E k \in 0..Len(p) : Match(root, Ancestor(p, k))

(* Every spelling of the destination against every spelling of the pattern.        *)
ValidateDestinationPath(dest) ==
    /\ IsAbsoluteDestination(dest)
    /\ \A q \in setup.protected, d \in {dest.at, resolveForMatch(dest.at)} :
         \A pattern \in {q.glob, canonicalPattern(q.glob)} :
            IF q.subtree THEN ~pathIsWithin(d, pattern) ELSE ~Match(pattern, Dir(d)) /\ ~Match(pattern, d)

(* What the operator means by the patterns: neither the destination as it is      *)
(* spelled nor the file that a rename to it replaces lies in a subtree, as that    *)
(* is spelled or as its part without wildcards leads to it. A link below a         *)
(* wildcard is left out: what it leads to is not protected under its own name,     *)
(* as canonicalPattern follows the part without wildcards only.                    *)
Reaches(p) == Append(Follow(Dir(p)), Last(p))
LeadsTo(glob) == LET k == literalPrefix(glob) IN Follow(Ancestor(glob, k)) \o Rest(glob, k)
Guarded(p) ==
    \E q \in setup.protected : q.subtree /\ \E d \in {p, Reaches(p)}, root \in {q.glob, LeadsTo(q.glob)} : pathIsWithin(d, root)
=============================================================================
