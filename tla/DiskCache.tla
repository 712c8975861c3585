------------------------------ MODULE DiskCache ------------------------------
(***************************************************************************)
(* Cache.Put (internal/nansen/cache.go) in the steps the file system sees, *)
(* over a directory that several processes share: Do's Put of a response   *)
(* it has just paid for, and ImportSeedFixture's Put of the seed           *)
(* (internal/pipeline/seed_import.go).  A key's temporary file has one     *)
(* name for everyone.  A file is what a name leads to and what an open     *)
(* handle keeps; a body is told by its length, so that a longer one, once  *)
(* begun, is seen to stick out behind a shorter one.                       *)
(***************************************************************************)
EXTENDS Integers, FiniteSets

CONSTANTS
    Processes,  \* running on one cache directory
    Keys,
    Bodies,     \* what may be put under each key, by length
    Files       \* the file system's files, enough for every name and handle

None == 0       \* no file
Empty == 0
Torn == -1      \* bytes that are no response

ASSUME CacheAssumption ==
    /\ Bodies \in [Keys -> SUBSET (Nat \ {0})]
    /\ \A k \in Keys : Bodies[k] # {}
    /\ Files \subseteq Nat \ {0} /\ IsFiniteSet(Files)

VARIABLES
    content,    \* of each file
    tmp,        \* the file that key.json.tmp leads to
    published,  \* the file that key.json leads to
    put,        \* each process's Put of each key: where it is, its body and file
    contended,  \* history: keys of which two Puts had a file open at a time
    broken,     \* history: keys of which a Put was killed, or its disk full
    ended       \* history: keys of which a Put came to its end

cacheVars == <<content, tmp, published, put, contended, broken, ended>>

NotPutting == [at |-> "idle", body |-> Empty, file |-> None]

PutStates == [at : {"idle", "missed", "open", "written"}, body : Nat, file : Files \cup {None}]

TypeOK ==
    /\ content \in [Files -> Int]
    /\ tmp \in [Keys -> Files \cup {None}]
    /\ published \in [Keys -> Files \cup {None}]
    /\ put \in [Processes \X Keys -> PutStates]
    /\ contended \subseteq Keys /\ broken \subseteq Keys /\ ended \subseteq Keys

CacheInit ==
    /\ content = [f \in Files |-> Empty]
    /\ tmp = [k \in Keys |-> None]
    /\ published = [k \in Keys |-> None]
    /\ put = [x \in Processes \X Keys |-> NotPutting]
    /\ contended = {}
    /\ broken = {}
    /\ ended = {}

-----------------------------------------------------------------------------

Put(p, k) == put[<<p, k>>]

\* p's Put of k goes on at a place, with a body and a file.
Goes(p, k, at, body, file) == put' = [put EXCEPT ![<<p, k>>] = [at |-> at, body |-> body, file |-> file]]

Ends(p, k) == put' = [put EXCEPT ![<<p, k>>] = NotPutting]

HasOpen(p, k) == Put(p, k).at \in {"open", "written"}

Used == {tmp[k] : k \in Keys} \cup {published[k] : k \in Keys}
            \cup {Put(p, k).file : p \in Processes, k \in Keys}

Free == Files \ Used

\* Has or Get finds no file, and the process goes on to fetch the response, or
\* to read the fixture.  A file that is there is taken, whatever it holds.
Look(p, k) ==
    /\ Put(p, k).at = "idle"
    /\ published[k] = None
    /\ \E b \in Bodies[k] : Goes(p, k, "missed", b, None)
    /\ UNCHANGED <<content, tmp, published, contended, broken, ended>>

\* os.WriteFile opens key.json.tmp: the file that is there, cut to nothing, or a
\* new one.  Free never runs out as long as there are more Files than names and
\* handles.
Open(p, k) ==
    LET f == IF tmp[k] = None THEN CHOOSE g \in Free : TRUE ELSE tmp[k] IN
    /\ Put(p, k).at = "missed"
    /\ Free # {}
    /\ content' = [content EXCEPT ![f] = Empty]
    /\ tmp' = [tmp EXCEPT ![k] = f]
    /\ Goes(p, k, "open", Put(p, k).body, f)
    /\ contended' = IF \E q \in Processes \ {p} : HasOpen(q, k) THEN contended \cup {k} ELSE contended
    /\ UNCHANGED <<published, broken, ended>>

\* Mutant: opened for appending, like the call log.
WrittenAppending(old, new) == IF old = Empty THEN {new} ELSE {Torn}

\* What a file holds once new is written over old from its first byte.
Written(old, new) ==
    IF old = Torn THEN {Torn, new} ELSE IF old > new THEN {Torn} ELSE {new}

Write(p, k) ==
    /\ Put(p, k).at = "open"
    /\ \E c \in Written(content[Put(p, k).file], Put(p, k).body) :
          content' = [content EXCEPT ![Put(p, k).file] = c]
    /\ Goes(p, k, "written", Put(p, k).body, Put(p, k).file)
    /\ UNCHANGED <<tmp, published, contended, broken, ended>>

\* Mutant: the error of WriteFile is dropped.
AfterFailedWriteGoesOn(p, k) == Goes(p, k, "written", Put(p, k).body, Put(p, k).file)

AfterFailedWrite(p, k) == Ends(p, k)

\* WriteFile fails with part of the body written; Put returns the error and
\* leaves the temporary file where it is.
WriteFails(p, k) ==
    /\ Put(p, k).at = "open"
    /\ content' = [content EXCEPT ![Put(p, k).file] = Torn]
    /\ AfterFailedWrite(p, k)
    /\ broken' = broken \cup {k}
    /\ UNCHANGED <<tmp, published, contended, ended>>

\* os.Rename moves the name, whichever file it leads to by now.
Rename(p, k) ==
    /\ Put(p, k).at = "written"
    /\ tmp[k] # None
    /\ published' = [published EXCEPT ![k] = tmp[k]]
    /\ tmp' = [tmp EXCEPT ![k] = None]
    /\ Ends(p, k)
    /\ ended' = ended \cup {k}
    /\ UNCHANGED <<content, contended, broken>>

\* Another process has moved it already: Put fails.
RenameFails(p, k) ==
    /\ Put(p, k).at = "written"
    /\ tmp[k] = None
    /\ Ends(p, k)
    /\ ended' = ended \cup {k}
    /\ UNCHANGED <<content, tmp, published, contended, broken>>

\* MkdirAll, or the opening or renaming of the temporary name, fails for a reason
\* of the file system's: Put returns the error and what it wrote stays behind.
PutFails(p, k) ==
    /\ Put(p, k).at \in {"missed", "written"}
    /\ Ends(p, k)
    /\ UNCHANGED <<content, tmp, published, contended, broken, ended>>

\* The process dies, with all its workers, in the middle of whatever they write;
\* a new one starts in its place.
Kill(p) ==
    LET cut == {Put(p, k).file : k \in {j \in Keys : Put(p, j).at = "open"}} IN
    /\ \E k \in Keys : Put(p, k) # NotPutting
    /\ \E part \in SUBSET cut :
          content' = [f \in Files |-> IF f \in part THEN Torn ELSE content[f]]
    /\ put' = [x \in Processes \X Keys |-> IF x[1] = p THEN NotPutting ELSE put[x]]
    /\ broken' = broken \cup {k \in Keys : HasOpen(p, k)}
    /\ UNCHANGED <<tmp, published, contended, ended>>

\* Every key is on disk and nobody is putting one.
Stored ==
    /\ \A k \in Keys : published[k] # None
    /\ \A p \in Processes, k \in Keys : Put(p, k) = NotPutting
    /\ UNCHANGED cacheVars

CacheNext ==
    \/ \E p \in Processes, k \in Keys :
          \/ Look(p, k) \/ Open(p, k) \/ Write(p, k) \/ WriteFails(p, k)
          \/ Rename(p, k) \/ RenameFails(p, k) \/ PutFails(p, k)
    \/ \E p \in Processes : Kill(p)
    \/ Stored

CacheSpec == CacheInit /\ [][CacheNext]_cacheVars

-----------------------------------------------------------------------------
(* Properties.                                                             *)

Whole(k) == published[k] # None /\ content[published[k]] \in Bodies[k]

\* Whoever puts k puts the same bytes.
OneBody(k) == \A b, c \in Bodies[k] : b = c

\* What the temporary file is for: a response is on disk whole or not at all,
\* whatever was killed, ran out of disk or left a temporary file behind, for
\* every key that two processes never put at one time.
WholeUnlessContended == \A k \in Keys \ contended : published[k] # None => Whole(k)

\* What is left of it when two do.  A Put that ended leaves the key on disk, if
\* another's rename overtook its own; and when the two wrote the same bytes, as
\* two imports of the seed's fixture do, what is there is whole once both ended.
EndedPutsSettle ==
    \A k \in ended : (\A p \in Processes : ~HasOpen(p, k)) =>
        /\ published[k] # None
        /\ OneBody(k) /\ k \notin broken => Whole(k)
=============================================================================
