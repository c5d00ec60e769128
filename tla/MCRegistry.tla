----------------------------- MODULE MCRegistry -----------------------------
(***************************************************************************)
(* TLC instances of Registry, and what the documents of the repository say *)
(* of it where the code does otherwise.                                    *)
(***************************************************************************)
EXTENDS Registry, TLC

CONSTANTS a, b

\* Nothing tells one client, or one file that is scanned, from another.
Symmetry == Permutations(Clients) \cup Permutations(Files)

\* A file with two spiders, one with the first of them, and code that is refused.
ThreeContents ==
    {[defines |-> <<a, b>>, check |-> "passes"], [defines |-> <<a>>, check |-> "passes"],
     [defines |-> <<>>, check |-> "refused"]}

\* One spider.
OneContent == {[defines |-> <<a>>, check |-> "passes"]}

\* The loop of _load_file, class by class, and that of scan_directory, file by
\* file, by one thread: a reference for Scan.
LoadEach(r, key, content) ==
    FoldLeft(LAMBDA s, n :
                 [classes |-> [s.classes EXCEPT ![n] = [file |-> key[1], content |-> content]],
                  paths   |-> [k \in Keys |->
                      IF k = key THEN n
                      ELSE IF s.paths[k] = n /\ n \in Registered(s) THEN NoName
                      ELSE s.paths[k]]],
             r, content.defines)

ScanEach(held, order) ==
    FoldLeft(LAMBDA s, f : LoadEach(s, <<f, "relative">>, held[f]), Empty, order)

\* Contents with classes that share a name, too.
MoreContents ==
    Contents \cup {[defines |-> d, check |-> "passes"] : d \in {<<b, a>>, <<a, a>>, <<a, b, a>>}}

\* Scan does what loading the files one after the other does.
ASSUME ScanAssumption ==
    \A held \in [Files -> MoreContents] : \A S \in SUBSET Files : \A order \in SetToSeqs(S) :
        Scan(held, order) = ScanEach(held, order)

\* DESIGN.md:720: the column "name" of the spiders table is UNIQUE.  The
\* constraint of the code is on (owner, name), which rows without an owner
\* never violate.
RowsUnique == [][\A n \in Names : Twins(n)' => Twins(n)]_rows

\* api/routes.py:264: to delete a spider stops it first, so that none of its
\* runners runs once no start is under way.
DeletedStops ==
    (\A c \in Clients : call[c] = Idle) => \A r \in live : r[1] \in Registered(registry)
=============================================================================
