--------------------------- MODULE DiskCacheProofs ---------------------------
(***************************************************************************)
(* The point of the temporary file, for any processes, keys, bodies and    *)
(* files: a key of which two Puts are never under way at a time is on disk *)
(* whole or not at all, whatever is killed or fails.  A process writes     *)
(* only to the file its handle holds, so the proof is about whose file     *)
(* that is.                                                                *)
(***************************************************************************)
EXTENDS DiskCache, TLAPS

\* The files that belong to key k: those its names lead to, and those held.
FilesOf(k) == ({tmp[k], published[k]} \cup {Put(p, k).file : p \in Processes}) \ {None}

\* No file belongs to two keys.
Apart == \A k, j \in Keys : k # j => FilesOf(k) \cap FilesOf(j) = {}

\* A Put knows its body, and has a file from Open to its end.
Putting(k) ==
    \A p \in Processes :
        /\ Put(p, k).at # "idle" => Put(p, k).body \in Bodies[k]
        /\ HasOpen(p, k) <=> Put(p, k).file # None

\* On a key that is not contended at most one handle is open, on the file that
\* the temporary name leads to, and that is not the published one.
Alone(k) ==
    /\ \A p, q \in Processes : HasOpen(p, k) /\ HasOpen(q, k) => p = q
    /\ \A p \in Processes : HasOpen(p, k) => Put(p, k).file = tmp[k]
    /\ tmp[k] # None => tmp[k] # published[k]

\* What is then in its files.
Contents(k) ==
    /\ \A p \in Processes :
          /\ Put(p, k).at = "open" => content[tmp[k]] = Empty
          /\ Put(p, k).at = "written" => content[tmp[k]] = Put(p, k).body
    /\ published[k] # None => content[published[k]] \in Bodies[k]

KeyInv(k) == Putting(k) /\ (k \notin contended => Alone(k) /\ Contents(k))

IInv == TypeOK /\ Apart /\ \A k \in Keys : KeyInv(k)

LEMMA InitIInv == CacheInit => IInv
<1> SUFFICES ASSUME CacheInit PROVE IInv
    OBVIOUS
<1> USE DEF CacheInit, NotPutting, HasOpen, Put
<1>1. TypeOK
    BY DEF TypeOK, PutStates, Empty
<1>2. \A k \in Keys : KeyInv(k)
    BY DEF KeyInv, Putting, Alone, Contents
<1>3. Apart
    BY DEF Apart, FilesOf
<1> QED
    BY <1>1, <1>2, <1>3 DEF IInv

\* A new file is nobody's.
LEMMA FreeIsNobodys ==
    ASSUME TypeOK, Free # {}
    PROVE  /\ (CHOOSE g \in Free : TRUE) \in Files
           /\ \A k \in Keys : (CHOOSE g \in Free : TRUE) \notin FilesOf(k)
<1> DEFINE f == CHOOSE g \in Free : TRUE
<1>1. f \in Files /\ f \notin Used
    BY DEF Free
<1> HIDE DEF f
<1>2. ASSUME NEW k \in Keys, f \in FilesOf(k) PROVE FALSE
    <2>1. f \in {tmp[k], published[k]} \/ \E p \in Processes : f = Put(p, k).file
        BY <1>2 DEF FilesOf
    <2>2. f \in Used
        BY <2>1 DEF Used
    <2> QED
        BY <1>1, <2>2
<1> QED
    BY <1>1, <1>2 DEF f

\* What a step of one Put leaves alone.
LEMMA OnePut ==
    ASSUME put \in [Processes \X Keys -> PutStates], NEW p \in Processes, NEW k \in Keys, NEW s,
           put' = [put EXCEPT ![<<p, k>>] = s]
    PROVE  /\ Put(p, k)' = s
           /\ \A q \in Processes, j \in Keys : q # p \/ j # k => Put(q, j)' = Put(q, j)
           /\ s \in PutStates => put' \in [Processes \X Keys -> PutStates]
<1>1. <<p, k>> \in Processes \X Keys
    OBVIOUS
<1>2. \A q \in Processes, j \in Keys : <<q, j>> \in Processes \X Keys /\ (<<q, j>> = <<p, k>> => q = p /\ j = k)
    OBVIOUS
<1>3. put'[<<p, k>>] = s
    BY <1>1
<1>4. ASSUME NEW q \in Processes, NEW j \in Keys, q # p \/ j # k
      PROVE  put'[<<q, j>>] = put[<<q, j>>]
    BY <1>2, <1>4
<1>5. s \in PutStates => put' \in [Processes \X Keys -> PutStates]
    OBVIOUS
<1> QED
    BY <1>3, <1>4, <1>5 DEF Put

\* The Put of a typed state is typed.
LEMMA PutType ==
    ASSUME put \in [Processes \X Keys -> PutStates], NEW p \in Processes, NEW k \in Keys
    PROVE  /\ Put(p, k) \in PutStates
           /\ Put(p, k).at \in {"idle", "missed", "open", "written"}
           /\ Put(p, k).body \in Nat
           /\ Put(p, k).file \in Files \cup {None}
BY DEF Put, PutStates

LEMMA StepType == TypeOK /\ [CacheNext]_cacheVars => TypeOK'
<1> SUFFICES ASSUME TypeOK, [CacheNext]_cacheVars PROVE TypeOK'
    OBVIOUS
<1> USE CacheAssumption DEF TypeOK
<1>0. NotPutting \in PutStates
    BY DEF NotPutting, PutStates, Empty
<1>1. ASSUME NEW p \in Processes, NEW k \in Keys, Look(p, k) PROVE TypeOK'
    <2>1. PICK b \in Bodies[k] : Goes(p, k, "missed", b, None)
        BY <1>1 DEF Look
    <2>2. [at |-> "missed", body |-> b, file |-> None] \in PutStates
        BY DEF PutStates
    <2>3. put' \in [Processes \X Keys -> PutStates]
        BY <2>1, <2>2, OnePut DEF Goes
    <2> QED
        BY <1>1, <2>3 DEF Look
<1>2. ASSUME NEW p \in Processes, NEW k \in Keys, Open(p, k) PROVE TypeOK'
    <2> DEFINE f == IF tmp[k] = None THEN CHOOSE g \in Free : TRUE ELSE tmp[k]
    <2>1. f \in Files
        BY <1>2, FreeIsNobodys DEF Open
    <2>2. /\ content' = [content EXCEPT ![f] = Empty] /\ tmp' = [tmp EXCEPT ![k] = f]
          /\ Goes(p, k, "open", Put(p, k).body, f)
        BY <1>2 DEF Open
    <2> HIDE DEF f
    <2>3. [at |-> "open", body |-> Put(p, k).body, file |-> f] \in PutStates
        BY <2>1, PutType DEF PutStates
    <2>4. put' \in [Processes \X Keys -> PutStates]
        BY <2>2, <2>3, OnePut DEF Goes
    <2>5. content' \in [Files -> Int] /\ tmp' \in [Keys -> Files \cup {None}]
        BY <2>1, <2>2 DEF Empty
    <2> QED
        BY <1>2, <2>4, <2>5 DEF Open
<1>3. ASSUME NEW p \in Processes, NEW k \in Keys, Write(p, k) PROVE TypeOK'
    <2>1. PICK c \in Written(content[Put(p, k).file], Put(p, k).body) :
              content' = [content EXCEPT ![Put(p, k).file] = c]
        BY <1>3 DEF Write
    <2>2. Put(p, k).file \in Files => c \in Int
        BY PutType DEF Written, Torn
    <2>3. content' \in [Files -> Int]
        BY <2>1, <2>2
    <2>4. [at |-> "written", body |-> Put(p, k).body, file |-> Put(p, k).file] \in PutStates
        BY PutType DEF PutStates
    <2>5. put' \in [Processes \X Keys -> PutStates]
        BY <1>3, <2>4, OnePut DEF Write, Goes
    <2> QED
        BY <1>3, <2>3, <2>5 DEF Write
<1>4. ASSUME NEW p \in Processes, NEW k \in Keys, Ends(p, k)
      PROVE  put' \in [Processes \X Keys -> PutStates]
    BY <1>0, <1>4, OnePut DEF Ends
<1>5. ASSUME NEW p \in Processes, NEW k \in Keys, WriteFails(p, k) PROVE TypeOK'
    <2>1. put' \in [Processes \X Keys -> PutStates]
        BY <1>4, <1>5 DEF WriteFails, AfterFailedWrite
    <2>2. content' = [content EXCEPT ![Put(p, k).file] = Torn]
        BY <1>5 DEF WriteFails
    <2>3. Torn \in Int
        BY DEF Torn
    <2>4. content' \in [Files -> Int]
        BY <2>2, <2>3
    <2> QED
        BY <1>5, <2>1, <2>4 DEF WriteFails
<1>6. ASSUME NEW p \in Processes, NEW k \in Keys, Rename(p, k) \/ RenameFails(p, k) \/ PutFails(p, k) PROVE TypeOK'
    <2>1. put' \in [Processes \X Keys -> PutStates]
        BY <1>4, <1>6 DEF Rename, RenameFails, PutFails
    <2> QED
        BY <1>6, <2>1 DEF Rename, RenameFails, PutFails, None
<1>7. ASSUME NEW p \in Processes, Kill(p) PROVE TypeOK'
    <2>1. put' \in [Processes \X Keys -> PutStates]
        <3>1. put' = [x \in Processes \X Keys |-> IF x[1] = p THEN NotPutting ELSE put[x]]
            BY <1>7 DEF Kill
        <3>2. \A x \in Processes \X Keys : (IF x[1] = p THEN NotPutting ELSE put[x]) \in PutStates
            BY <1>0
        <3> HIDE DEF NotPutting
        <3> QED
            BY <3>1, <3>2
    <2>2. content' \in [Files -> Int]
        BY <1>7 DEF Kill, Torn
    <2> QED
        BY <1>7, <2>1, <2>2 DEF Kill
<1>8. CASE UNCHANGED cacheVars
    BY <1>8 DEF cacheVars
<1> QED
    BY <1>1, <1>2, <1>3, <1>5, <1>6, <1>7, <1>8 DEF CacheNext, Stored

-----------------------------------------------------------------------------
(* A step on one key touches only that key's files.                        *)

\* What every other key keeps.
LEMMA OtherKeys ==
    ASSUME IInv, TypeOK', NEW k \in Keys,
           \A j \in Keys \ {k} : /\ \A q \in Processes : Put(q, j)' = Put(q, j)
                                 /\ tmp'[j] = tmp[j] /\ published'[j] = published[j]
                                 /\ j \in contended' <=> j \in contended,
           \A f \in Files : f \notin FilesOf(k) \cup FilesOf(k)' => content'[f] = content[f],
           \A j \in Keys \ {k} : FilesOf(k)' \cap FilesOf(j) = {},
           KeyInv(k)'
    PROVE  IInv'
<1>1. ASSUME NEW j \in Keys \ {k} PROVE FilesOf(j)' = FilesOf(j)
    BY <1>1 DEF FilesOf
<1>2. Apart'
    <2>1. ASSUME NEW i \in Keys, NEW j \in Keys, i # j PROVE FilesOf(i)' \cap FilesOf(j)' = {}
        <3>1. CASE i = k
            BY <1>1, <2>1, <3>1
        <3>2. CASE j = k
            BY <1>1, <2>1, <3>2
        <3>3. CASE i # k /\ j # k
            BY <1>1, <2>1, <3>3 DEF IInv, Apart
        <3> QED
            BY <3>1, <3>2, <3>3
    <2> QED
        BY <2>1 DEF Apart
<1>3. ASSUME NEW j \in Keys \ {k} PROVE KeyInv(j)'
    <2>1. KeyInv(j) /\ FilesOf(j) \cap (FilesOf(k) \cup FilesOf(k)') = {}
        BY DEF IInv, Apart
    <2>2. ASSUME NEW f \in FilesOf(j) \cap Files PROVE content'[f] = content[f]
        BY <2>1, <2>2
    <2>3. Putting(j)' /\ (j \notin contended' => Alone(j)')
        BY <2>1 DEF KeyInv, Putting, Alone, HasOpen
    <2>4. ASSUME j \notin contended' PROVE Contents(j)'
        <3>1. Putting(j) /\ Alone(j) /\ Contents(j)
            BY <2>1, <2>4 DEF KeyInv
        <3>2. published[j] # None => content'[published[j]] = content[published[j]]
            BY <2>2 DEF FilesOf, IInv, TypeOK
        <3>3. ASSUME NEW q \in Processes, HasOpen(q, j) PROVE content'[tmp[j]] = content[tmp[j]]
            <4>1. tmp[j] # None
                BY <3>1, <3>3 DEF Putting, Alone
            <4> QED
                BY <2>2, <4>1 DEF FilesOf, IInv, TypeOK
        <3> QED
            BY <3>1, <3>2, <3>3 DEF Contents, HasOpen
    <2> QED
        BY <2>3, <2>4 DEF KeyInv
<1> QED
    BY <1>2, <1>3 DEF IInv

\* What a step of p's Put of k leaves to every other Put.
LEMMA OtherPuts ==
    ASSUME IInv, NEW p \in Processes, NEW k \in Keys, NEW at, NEW body, NEW file,
           Goes(p, k, at, body, file)
    PROVE  /\ Put(p, k)' = [at |-> at, body |-> body, file |-> file]
           /\ \A q \in Processes, j \in Keys : q # p \/ j # k => Put(q, j)' = Put(q, j)
BY OnePut DEF IInv, TypeOK, Goes

LEMMA OtherPutsEnd ==
    ASSUME IInv, NEW p \in Processes, NEW k \in Keys, Ends(p, k)
    PROVE  /\ Put(p, k)' = NotPutting
           /\ \A q \in Processes, j \in Keys : q # p \/ j # k => Put(q, j)' = Put(q, j)
BY OnePut DEF IInv, TypeOK, Ends

\* A key that gets no file of another key stays apart.
LEMMA StaysApart ==
    ASSUME IInv, NEW k \in Keys, FilesOf(k)' \subseteq FilesOf(k)
    PROVE  \A j \in Keys \ {k} : FilesOf(k)' \cap FilesOf(j) = {}
BY DEF IInv, Apart

LEMMA NewFileApart ==
    ASSUME IInv, NEW k \in Keys, NEW f, \A j \in Keys : f \notin FilesOf(j),
           FilesOf(k)' \subseteq FilesOf(k) \cup {f}
    PROVE  \A j \in Keys \ {k} : FilesOf(k)' \cap FilesOf(j) = {}
BY DEF IInv, Apart

LEMMA LookStep ==
    ASSUME IInv, TypeOK', NEW p \in Processes, NEW k \in Keys, Look(p, k)
    PROVE  IInv'
<1>1. PICK b \in Bodies[k] : Goes(p, k, "missed", b, None)
    BY DEF Look
<1>2. /\ Put(p, k)' = [at |-> "missed", body |-> b, file |-> None]
      /\ \A q \in Processes, j \in Keys : q # p \/ j # k => Put(q, j)' = Put(q, j)
    BY <1>1, OtherPuts
<1>3. FilesOf(k)' \subseteq FilesOf(k)
    BY <1>2 DEF Look, FilesOf
<1>4. \A j \in Keys \ {k} : FilesOf(k)' \cap FilesOf(j) = {}
    BY <1>3, StaysApart
<1>5. KeyInv(k) /\ Put(p, k).at = "idle" /\ UNCHANGED <<content, tmp, published, contended>>
    BY DEF IInv, Look
<1>6. Putting(k)'
    BY <1>2, <1>5 DEF KeyInv, Putting, HasOpen
<1>7. k \notin contended' => Alone(k)' /\ Contents(k)'
    BY <1>2, <1>5 DEF KeyInv, Alone, Contents, HasOpen
<1>8. KeyInv(k)'
    BY <1>6, <1>7 DEF KeyInv
<1> QED
    BY <1>2, <1>4, <1>5, <1>8, OtherKeys

LEMMA OpenStep ==
    ASSUME IInv, TypeOK', NEW p \in Processes, NEW k \in Keys, Open(p, k)
    PROVE  IInv'
<1> DEFINE f == IF tmp[k] = None THEN CHOOSE g \in Free : TRUE ELSE tmp[k]
<1>1. TypeOK /\ KeyInv(k)
    BY DEF IInv
<1>2. /\ Put(p, k).at = "missed"
      /\ content' = [content EXCEPT ![f] = Empty]
      /\ tmp' = [tmp EXCEPT ![k] = f]
      /\ Goes(p, k, "open", Put(p, k).body, f)
      /\ contended' = IF \E q \in Processes \ {p} : HasOpen(q, k) THEN contended \cup {k} ELSE contended
      /\ published' = published
    BY DEF Open
\* The file is k's own, or nobody's.
<1>3. f \in Files /\ (f \in FilesOf(k) \/ \A j \in Keys : f \notin FilesOf(j))
    <2>1. CASE tmp[k] = None
        BY <1>1, <2>1, FreeIsNobodys DEF Open
    <2>2. CASE tmp[k] # None
        BY <1>1, <2>2 DEF TypeOK, FilesOf
    <2> QED
        BY <2>1, <2>2
\* It is not the published one, on a key that is not contended.
<1>4. k \notin contended => f # published[k]
    <2>1. CASE tmp[k] = None
        <3>1. f \notin FilesOf(k) /\ f # None
            BY <1>1, <2>1, FreeIsNobodys, CacheAssumption DEF Open, None
        <3> HIDE DEF f
        <3> QED
            BY <3>1 DEF FilesOf
    <2>2. CASE tmp[k] # None
        BY <1>1, <2>2 DEF KeyInv, Alone
    <2> QED
        BY <2>1, <2>2
<1> HIDE DEF f
<1>5. /\ Put(p, k)' = [at |-> "open", body |-> Put(p, k).body, file |-> f]
      /\ \A q \in Processes, j \in Keys : q # p \/ j # k => Put(q, j)' = Put(q, j)
    BY <1>2, OtherPuts
<1>6. f # None /\ tmp'[k] = f /\ (\A j \in Keys \ {k} : tmp'[j] = tmp[j])
    BY <1>1, <1>2, <1>3, CacheAssumption DEF TypeOK, None
<1>7. content'[f] = Empty /\ \A g \in Files : g # f => content'[g] = content[g]
    BY <1>1, <1>2, <1>3 DEF TypeOK
<1>8. f \in FilesOf(k)' /\ FilesOf(k)' \subseteq FilesOf(k) \cup {f}
    BY <1>2, <1>5, <1>6 DEF FilesOf
<1>9. \A j \in Keys \ {k} : FilesOf(k)' \cap FilesOf(j) = {}
    <2>1. CASE f \in FilesOf(k)
        BY <1>8, <2>1, StaysApart
    <2>2. CASE \A j \in Keys : f \notin FilesOf(j)
        BY <1>8, <2>2, NewFileApart
    <2> QED
        BY <1>3, <2>1, <2>2
<1>10. Putting(k)'
    BY <1>1, <1>2, <1>5, <1>6 DEF KeyInv, Putting, HasOpen
<1>11. ASSUME k \notin contended' PROVE Alone(k)' /\ Contents(k)'
    <2>1. k \notin contended /\ \A q \in Processes \ {p} : ~HasOpen(q, k)
        BY <1>2, <1>11
    <2>2. Alone(k) /\ Contents(k)
        BY <1>1, <2>1 DEF KeyInv
    <2>3. \A q \in Processes \ {p} : ~HasOpen(q, k)'
        BY <1>5, <2>1 DEF HasOpen
    <2>4. Alone(k)'
        BY <1>2, <1>4, <1>5, <1>6, <2>1, <2>3 DEF Alone
    <2>5. published[k] # None => content'[published[k]] = content[published[k]]
        BY <1>1, <1>4, <1>7, <2>1 DEF TypeOK
    <2>6. Contents(k)'
        BY <1>2, <1>5, <1>6, <1>7, <2>2, <2>3, <2>5 DEF Contents, HasOpen
    <2> QED
        BY <2>4, <2>6
<1>12. KeyInv(k)'
    BY <1>10, <1>11 DEF KeyInv
<1>13. \A j \in Keys \ {k} : j \in contended' <=> j \in contended
    BY <1>2
<1> QED
    BY <1>2, <1>5, <1>6, <1>7, <1>8, <1>9, <1>12, <1>13, OtherKeys

LEMMA WriteStep ==
    ASSUME IInv, TypeOK', NEW p \in Processes, NEW k \in Keys, Write(p, k)
    PROVE  IInv'
<1> DEFINE f == Put(p, k).file
<1>1. TypeOK /\ KeyInv(k)
    BY DEF IInv
<1>2. PICK c \in Written(content[f], Put(p, k).body) : content' = [content EXCEPT ![f] = c]
    BY DEF Write
<1>3. /\ Put(p, k).at = "open"
      /\ Goes(p, k, "written", Put(p, k).body, f)
      /\ UNCHANGED <<tmp, published, contended>>
    BY DEF Write
<1>4. f # None /\ f \in Files
    BY <1>1, <1>3, PutType DEF KeyInv, Putting, HasOpen, TypeOK
<1>5. f \in FilesOf(k)
    BY <1>4 DEF FilesOf
<1>6. k \notin contended => c = Put(p, k).body /\ f = tmp[k] /\ f # published[k]
    <2>1. SUFFICES ASSUME k \notin contended PROVE c = Put(p, k).body /\ f = tmp[k] /\ f # published[k]
        OBVIOUS
    <2>2. f = tmp[k] /\ f # published[k]
        BY <1>1, <1>3, <1>4, <2>1 DEF KeyInv, Alone, HasOpen
    <2>3. content[f] = Empty
        BY <1>1, <1>3, <2>1, <2>2 DEF KeyInv, Contents
    <2>4. Put(p, k).body \in Nat
        BY <1>1, PutType DEF TypeOK
    <2>5. c = Put(p, k).body
        BY <1>2, <2>3, <2>4 DEF Written, Empty, Torn
    <2> QED
        BY <2>2, <2>5
<1>7. content'[f] = c /\ \A g \in Files : g # f => content'[g] = content[g]
    BY <1>1, <1>2, <1>4 DEF TypeOK
<1> HIDE DEF f
<1>8. /\ Put(p, k)' = [at |-> "written", body |-> Put(p, k).body, file |-> f]
      /\ \A q \in Processes, j \in Keys : q # p \/ j # k => Put(q, j)' = Put(q, j)
    BY <1>3, OtherPuts
<1>9. FilesOf(k)' \subseteq FilesOf(k)
    BY <1>3, <1>5, <1>8 DEF FilesOf
<1>10. \A j \in Keys \ {k} : FilesOf(k)' \cap FilesOf(j) = {}
    BY <1>9, StaysApart
<1>11. Putting(k)'
    BY <1>1, <1>3, <1>4, <1>8 DEF KeyInv, Putting, HasOpen
<1>12. ASSUME k \notin contended' PROVE Alone(k)' /\ Contents(k)'
    <2>1. k \notin contended /\ Alone(k) /\ Contents(k)
        BY <1>1, <1>3, <1>12 DEF KeyInv
    <2>2. HasOpen(p, k) /\ \A q \in Processes : HasOpen(q, k)' <=> HasOpen(q, k)
        BY <1>3, <1>8 DEF HasOpen
    <2>3. Alone(k)'
        BY <1>3, <1>6, <1>8, <2>1, <2>2 DEF Alone
    <2>4. published[k] # None => content'[published[k]] = content[published[k]]
        BY <1>1, <1>6, <1>7, <2>1 DEF TypeOK
    <2>5. \A q \in Processes : HasOpen(q, k)' => q = p
        BY <2>1, <2>2 DEF Alone
    <2>6. Contents(k)'
        BY <1>3, <1>6, <1>7, <1>8, <2>1, <2>4, <2>5 DEF Contents, HasOpen
    <2> QED
        BY <2>3, <2>6
<1>13. KeyInv(k)'
    BY <1>11, <1>12 DEF KeyInv
<1> QED
    BY <1>3, <1>5, <1>7, <1>8, <1>10, <1>13, OtherKeys

\* The three ways a Put ends: what is left of it on its key is what others hold.
LEMMA EndStep ==
    ASSUME IInv, TypeOK', NEW p \in Processes, NEW k \in Keys, Ends(p, k),
           WriteFails(p, k) \/ Rename(p, k) \/ RenameFails(p, k)
    PROVE  IInv'
<1> DEFINE f == Put(p, k).file
<1>1. TypeOK /\ KeyInv(k) /\ contended' = contended
    BY DEF IInv, WriteFails, Rename, RenameFails
<1>2. /\ Put(p, k)' = NotPutting
      /\ \A q \in Processes, j \in Keys : q # p \/ j # k => Put(q, j)' = Put(q, j)
    BY OtherPutsEnd
<1>3. HasOpen(p, k) /\ f \in FilesOf(k)
    BY <1>1 DEF WriteFails, Rename, RenameFails, HasOpen, KeyInv, Putting, FilesOf
<1>4. \A j \in Keys \ {k} : tmp'[j] = tmp[j] /\ published'[j] = published[j]
    BY <1>1 DEF WriteFails, Rename, RenameFails, TypeOK
<1>5. \A g \in Files : g \notin FilesOf(k) => content'[g] = content[g]
    BY <1>1, <1>3 DEF WriteFails, Rename, RenameFails, TypeOK
<1>6. {tmp'[k], published'[k]} \subseteq {tmp[k], published[k], None}
    BY <1>1 DEF WriteFails, Rename, RenameFails, TypeOK
<1>7. FilesOf(k)' \subseteq FilesOf(k)
    BY <1>2, <1>6 DEF FilesOf, NotPutting
<1>8. \A j \in Keys \ {k} : FilesOf(k)' \cap FilesOf(j) = {}
    BY <1>7, StaysApart
<1>9. Putting(k)'
    BY <1>1, <1>2 DEF KeyInv, Putting, HasOpen, NotPutting
<1>10. ASSUME k \notin contended' PROVE Alone(k)' /\ Contents(k)'
    <2>1. Alone(k) /\ Contents(k)
        BY <1>1, <1>10 DEF KeyInv
    <2>2. \A q \in Processes : ~HasOpen(q, k)'
        BY <1>2, <1>3, <2>1 DEF HasOpen, Alone, NotPutting
    <2>3. f = tmp[k] /\ f # None /\ f \in Files /\ f # published[k]
        BY <1>1, <1>3, <2>1, PutType DEF KeyInv, Putting, Alone, TypeOK
    <2>4. tmp'[k] # None => tmp'[k] # published'[k]
        BY <1>1, <2>3 DEF WriteFails, Rename, RenameFails, TypeOK
    <2>5. published'[k] # None => content'[published'[k]] \in Bodies[k]
        <3>1. CASE WriteFails(p, k)
            <4>1. published' = published /\ \A g \in Files : g # f => content'[g] = content[g]
                BY <1>1, <3>1 DEF WriteFails, TypeOK
            <4>2. published[k] \in Files \cup {None}
                BY <1>1 DEF TypeOK
            <4> QED
                BY <2>1, <2>3, <4>1, <4>2 DEF Contents
        <3>2. CASE Rename(p, k)
            <4>1. published'[k] = tmp[k] /\ content' = content /\ Put(p, k).at = "written"
                BY <1>1, <3>2 DEF Rename, TypeOK
            <4>2. Put(p, k).body \in Bodies[k]
                BY <1>1, <4>1 DEF KeyInv, Putting
            <4> QED
                BY <2>1, <4>1, <4>2 DEF Contents
        <3>3. CASE RenameFails(p, k)
            BY <2>1, <3>3 DEF RenameFails, Contents
        <3> QED
            BY <3>1, <3>2, <3>3
    <2>6. Alone(k)'
        BY <2>2, <2>4 DEF Alone
    <2>7. Contents(k)'
        BY <2>2, <2>5 DEF Contents, HasOpen
    <2> QED
        BY <2>6, <2>7
<1>11. KeyInv(k)'
    BY <1>9, <1>10 DEF KeyInv
<1> QED
    BY <1>1, <1>2, <1>4, <1>5, <1>8, <1>11, OtherKeys

\* A process that dies cuts files it had open, which are of keys it was putting.
\* A Put that gives up leaves the files and the names as they are.
LEMMA PutFailsStep ==
    ASSUME IInv, TypeOK', NEW p \in Processes, NEW k \in Keys, PutFails(p, k)
    PROVE  IInv'
<1>1. /\ Put(p, k)' = NotPutting
      /\ \A q \in Processes, j \in Keys : q # p \/ j # k => Put(q, j)' = Put(q, j)
    BY OtherPutsEnd DEF PutFails
<1>2. FilesOf(k)' \subseteq FilesOf(k)
    BY <1>1 DEF PutFails, FilesOf, NotPutting
<1>3. \A j \in Keys \ {k} : FilesOf(k)' \cap FilesOf(j) = {}
    BY <1>2, StaysApart
<1>4. KeyInv(k) /\ UNCHANGED <<content, tmp, published, contended>>
    BY DEF IInv, PutFails
<1>5. \A q \in Processes : HasOpen(q, k)' => HasOpen(q, k) /\ Put(q, k)' = Put(q, k)
    BY <1>1 DEF HasOpen, NotPutting
<1>6. Putting(k)'
    BY <1>1, <1>4, <1>5 DEF KeyInv, Putting, HasOpen, NotPutting
<1>7. k \notin contended' => Alone(k)' /\ Contents(k)'
    BY <1>1, <1>4, <1>5 DEF KeyInv, Alone, Contents, HasOpen, NotPutting
<1>8. KeyInv(k)'
    BY <1>6, <1>7 DEF KeyInv
<1> QED
    BY <1>1, <1>3, <1>4, <1>8, OtherKeys

LEMMA KillStep ==
    ASSUME IInv, TypeOK', NEW p \in Processes, Kill(p)
    PROVE  IInv'
<1> DEFINE cut == {Put(p, k).file : k \in {j \in Keys : Put(p, j).at = "open"}}
<1>1. TypeOK /\ UNCHANGED <<tmp, published, contended>>
    BY DEF IInv, Kill
<1>2. PICK part \in SUBSET cut : content' = [f \in Files |-> IF f \in part THEN Torn ELSE content[f]]
    BY DEF Kill
<1>3. ASSUME NEW k \in Keys
      PROVE  /\ Put(p, k)' = NotPutting
             /\ \A q \in Processes : q # p => Put(q, k)' = Put(q, k)
    <2>1. put' = [x \in Processes \X Keys |-> IF x[1] = p THEN NotPutting ELSE put[x]]
        BY DEF Kill
    <2> QED
        BY <2>1 DEF Put
<1>4. ASSUME NEW f \in Files, content'[f] # content[f]
      PROVE  \E j \in Keys : Put(p, j).at = "open" /\ Put(p, j).file = f
    BY <1>1, <1>2, <1>4 DEF TypeOK
<1>5. ASSUME NEW k \in Keys PROVE FilesOf(k)' \subseteq FilesOf(k)
    BY <1>1, <1>3, <1>5 DEF FilesOf, NotPutting
<1>6. Apart'
    <2>1. \A i, j \in Keys : i # j => FilesOf(i) \cap FilesOf(j) = {}
        BY DEF IInv, Apart
    <2>2. ASSUME NEW i \in Keys, NEW j \in Keys, i # j PROVE FilesOf(i)' \cap FilesOf(j)' = {}
        BY <1>5, <2>1, <2>2
    <2> QED
        BY <2>2 DEF Apart
<1>7. ASSUME NEW k \in Keys PROVE KeyInv(k)'
    <2>1. KeyInv(k)
        BY DEF IInv
    <2>2. Putting(k)'
        BY <1>3, <2>1 DEF KeyInv, Putting, HasOpen, NotPutting
    <2>3. ASSUME k \notin contended' PROVE Alone(k)' /\ Contents(k)'
        <3>1. Alone(k) /\ Contents(k)
            BY <1>1, <2>1, <2>3 DEF KeyInv
        <3>2. \A q \in Processes : HasOpen(q, k)' => q # p /\ HasOpen(q, k)
            BY <1>3 DEF HasOpen, NotPutting
        <3>3. Alone(k)'
            BY <1>1, <1>3, <3>1, <3>2 DEF Alone
        \* A file of k that is cut is the one p has open for k.
        <3>4. ASSUME NEW f \in FilesOf(k) \cap Files, content'[f] # content[f]
              PROVE  HasOpen(p, k) /\ Put(p, k).file = f
            <4>1. PICK j \in Keys : Put(p, j).at = "open" /\ Put(p, j).file = f
                BY <1>4, <3>4
            <4>2. f # None
                BY CacheAssumption DEF None
            <4>3. f \in FilesOf(j)
                BY <4>1, <4>2 DEF FilesOf
            <4>4. j = k
                BY <3>4, <4>3 DEF IInv, Apart
            <4> QED
                BY <4>1, <4>4 DEF HasOpen
        <3>5. published[k] # None => content'[published[k]] = content[published[k]]
            <4>1. SUFFICES ASSUME published[k] # None, content'[published[k]] # content[published[k]] PROVE FALSE
                OBVIOUS
            <4>2. published[k] \in FilesOf(k) \cap Files
                BY <1>1, <4>1 DEF FilesOf, TypeOK
            <4>3. HasOpen(p, k) /\ Put(p, k).file = published[k]
                BY <3>4, <4>1, <4>2
            <4> QED
                BY <3>1, <4>1, <4>3 DEF Alone
        <3>6. ASSUME NEW q \in Processes, HasOpen(q, k)' PROVE content'[tmp[k]] = content[tmp[k]]
            <4>1. q # p /\ HasOpen(q, k)
                BY <3>2, <3>6
            <4>2. tmp[k] # None
                BY <2>1, <3>1, <4>1 DEF KeyInv, Putting, Alone
            <4>3. tmp[k] \in FilesOf(k) \cap Files
                BY <1>1, <4>2 DEF FilesOf, TypeOK
            <4>4. ~HasOpen(p, k)
                BY <3>1, <4>1 DEF Alone
            <4> QED
                BY <3>4, <4>3, <4>4
        <3>7. Contents(k)'
            <4>1. published'[k] # None => content'[published'[k]] \in Bodies[k]
                BY <1>1, <3>1, <3>5 DEF Contents
            <4>2. ASSUME NEW q \in Processes
                  PROVE  /\ Put(q, k)'.at = "open" => content'[tmp'[k]] = Empty
                         /\ Put(q, k)'.at = "written" => content'[tmp'[k]] = Put(q, k)'.body
                <5>1. SUFFICES ASSUME HasOpen(q, k)'
                      PROVE /\ Put(q, k)'.at = "open" => content'[tmp'[k]] = Empty
                            /\ Put(q, k)'.at = "written" => content'[tmp'[k]] = Put(q, k)'.body
                    BY DEF HasOpen
                <5>2. Put(q, k)' = Put(q, k) /\ content'[tmp'[k]] = content[tmp[k]]
                    BY <1>1, <1>3, <3>2, <3>6, <5>1
                <5> QED
                    BY <3>1, <5>2 DEF Contents
            <4> QED
                BY <4>1, <4>2 DEF Contents
        <3> QED
            BY <3>3, <3>7
    <2> QED
        BY <2>2, <2>3 DEF KeyInv
<1> QED
    BY <1>6, <1>7 DEF IInv

-----------------------------------------------------------------------------

\* The inductive invariant holds of every cache directory, whoever puts what.
THEOREM Invariance == CacheSpec => []IInv
<1>1. ASSUME IInv, [CacheNext]_cacheVars PROVE IInv'
    <2>1. TypeOK'
        BY <1>1, StepType DEF IInv
    <2>2. ASSUME NEW p \in Processes, NEW k \in Keys,
                 \/ Look(p, k) \/ Open(p, k) \/ Write(p, k) \/ WriteFails(p, k)
                 \/ Rename(p, k) \/ RenameFails(p, k) \/ PutFails(p, k)
          PROVE  IInv'
        <3>1. WriteFails(p, k) \/ Rename(p, k) \/ RenameFails(p, k) => Ends(p, k)
            BY DEF WriteFails, AfterFailedWrite, Rename, RenameFails
        <3> QED
            BY <1>1, <2>1, <2>2, <3>1, LookStep, OpenStep, WriteStep, EndStep, PutFailsStep
    <2>3. ASSUME NEW p \in Processes, Kill(p) PROVE IInv'
        BY <1>1, <2>1, <2>3, KillStep
    <2>4. CASE UNCHANGED cacheVars
        <3>1. \A k \in Keys : KeyInv(k)'
            BY <1>1, <2>4 DEF cacheVars, IInv, KeyInv, Putting, Alone, Contents, HasOpen, Put
        <3>2. \A k \in Keys : FilesOf(k)' = FilesOf(k)
            BY <2>4 DEF cacheVars, FilesOf, Put
        <3>3. Apart'
            BY <1>1, <3>2 DEF IInv, Apart
        <3> QED
            BY <2>1, <3>1, <3>3 DEF IInv
    <2> QED
        BY <1>1, <2>2, <2>3, <2>4 DEF CacheNext, Stored
<1> QED
    BY <1>1, InitIInv, PTL DEF CacheSpec

\* Every reachable state of the cache directory is one of TypeOK.
THEOREM TypeCorrect == CacheSpec => []TypeOK
BY Invariance, PTL DEF IInv

\* A response is on disk whole or not at all, whatever was killed or failed
\* half-way, for every key of which no two Puts had the file open at a time.
THEOREM WholeOnDisk == CacheSpec => []WholeUnlessContended
<1>1. IInv => WholeUnlessContended
    BY DEF IInv, KeyInv, Contents, WholeUnlessContended, Whole
<1> QED
    BY <1>1, Invariance, PTL

-----------------------------------------------------------------------------
(***************************************************************************)
(* What is left of a contended key.  Nobody takes a published file away,   *)
(* and nobody opens one: what a rename has published is written to only by *)
(* the handles that were open on it then.                                  *)
(***************************************************************************)

\* A handle's file has had a name since: a rename that comes too late finds the
\* key published.
NamesSettle(k) ==
    /\ tmp[k] # None => tmp[k] # published[k]
    /\ \A p \in Processes : HasOpen(p, k) => tmp[k] # None \/ published[k] # None
    /\ k \in ended => published[k] # None

BeingWritten(f, k) == \E p \in Processes : Put(p, k).at = "open" /\ Put(p, k).file = f

\* Where everybody writes the same bytes and nothing breaks, k's files hold them
\* or nothing, and nothing only while somebody is about to write.
BytesSettle(k) ==
    OneBody(k) /\ k \notin broken =>
        /\ \A f \in FilesOf(k) : content[f] \in Bodies[k] \cup {Empty}
        /\ \A f \in {tmp[k], published[k]} \ {None} : content[f] \in Bodies[k] \/ BeingWritten(f, k)

Settles(k) == NamesSettle(k) /\ BytesSettle(k)

\* A key that a step does not touch.
LEMMA SettlesStill ==
    ASSUME NEW k \in Keys, Settles(k), tmp'[k] = tmp[k], published'[k] = published[k],
           \A q \in Processes : Put(q, k)' = Put(q, k),
           k \in ended' <=> k \in ended, k \in broken => k \in broken',
           \A f \in FilesOf(k) : content'[f] = content[f]
    PROVE  Settles(k)'
<1>1. FilesOf(k)' = FilesOf(k)
    BY DEF FilesOf
<1>2. NamesSettle(k)'
    BY DEF Settles, NamesSettle, HasOpen
<1>3. \A f : BeingWritten(f, k)' <=> BeingWritten(f, k)
    BY DEF BeingWritten
<1>4. {tmp[k], published[k]} \ {None} \subseteq FilesOf(k)
    BY DEF FilesOf
<1>5. ASSUME OneBody(k), k \notin broken' PROVE BytesSettle(k)'
    <2>1. /\ \A f \in FilesOf(k) : content[f] \in Bodies[k] \cup {Empty}
          /\ \A f \in {tmp[k], published[k]} \ {None} : content[f] \in Bodies[k] \/ BeingWritten(f, k)
        BY <1>5 DEF Settles, BytesSettle
    <2>2. \A f \in FilesOf(k)' : content'[f] \in Bodies[k] \cup {Empty}
        BY <1>1, <2>1
    <2>3. \A f \in {tmp'[k], published'[k]} \ {None} : content'[f] \in Bodies[k] \/ BeingWritten(f, k)'
        BY <1>3, <1>4, <2>1
    <2> QED
        BY <2>2, <2>3 DEF BytesSettle
<1>6. BytesSettle(k)'
    BY <1>5 DEF BytesSettle
<1> QED
    BY <1>2, <1>6 DEF Settles

\* A step of p's Put of k leaves the other keys' files alone.
LEMMA SettlesElsewhere ==
    ASSUME IInv, NEW p \in Processes, NEW k \in Keys, NEW j \in Keys \ {k}, Settles(j),
           \/ Look(p, k) \/ Open(p, k) \/ Write(p, k) \/ WriteFails(p, k)
           \/ Rename(p, k) \/ RenameFails(p, k) \/ PutFails(p, k)
    PROVE  Settles(j)'
<1>1. TypeOK /\ Putting(k) /\ FilesOf(k) \cap FilesOf(j) = {}
    BY DEF IInv, Apart, KeyInv
<1>2. tmp'[j] = tmp[j] /\ published'[j] = published[j]
    BY <1>1 DEF Look, Open, Write, WriteFails, Rename, RenameFails, PutFails, TypeOK
<1>3. \A q \in Processes : Put(q, j)' = Put(q, j)
    BY OtherPuts, OtherPutsEnd
       DEF Look, Open, Write, WriteFails, AfterFailedWrite, Rename, RenameFails, PutFails
<1>4. (j \in ended' <=> j \in ended) /\ (j \in broken => j \in broken')
    BY DEF Look, Open, Write, WriteFails, Rename, RenameFails, PutFails
<1>5. ASSUME NEW f \in FilesOf(j) PROVE content'[f] = content[f]
    <2>1. f \in Files
        BY <1>1, PutType DEF FilesOf, TypeOK
    <2>2. CASE Open(p, k)
        <3> DEFINE g == IF tmp[k] = None THEN CHOOSE h \in Free : TRUE ELSE tmp[k]
        <3>1. g \notin FilesOf(j)
            <4>1. CASE tmp[k] = None
                BY <1>1, <2>2, <4>1, FreeIsNobodys DEF Open
            <4>2. CASE tmp[k] # None
                BY <1>1, <4>2 DEF FilesOf
            <4> QED
                BY <4>1, <4>2
        <3>2. content' = [content EXCEPT ![g] = Empty]
            BY <2>2 DEF Open
        <3> HIDE DEF g
        <3> QED
            BY <1>1, <2>1, <3>1, <3>2 DEF TypeOK
    <2>3. CASE Write(p, k) \/ WriteFails(p, k)
        <3>1. Put(p, k).file \in FilesOf(k)
            BY <1>1, <2>3 DEF Write, WriteFails, Putting, HasOpen, FilesOf
        <3>2. Put(p, k).file # f
            BY <1>1, <3>1
        <3> QED
            BY <1>1, <2>1, <2>3, <3>2 DEF Write, WriteFails, TypeOK
    <2>4. CASE Look(p, k) \/ Rename(p, k) \/ RenameFails(p, k) \/ PutFails(p, k)
        BY <2>4 DEF Look, Rename, RenameFails, PutFails
    <2> QED
        BY <2>2, <2>3, <2>4
<1> QED
    BY <1>2, <1>3, <1>4, <1>5, SettlesStill

LEMMA SettlesLook ==
    ASSUME IInv, NEW p \in Processes, NEW k \in Keys, Settles(k), Look(p, k)
    PROVE  Settles(k)'
<1>1. PICK b \in Bodies[k] : Goes(p, k, "missed", b, None)
    BY DEF Look
<1>2. /\ Put(p, k)' = [at |-> "missed", body |-> b, file |-> None] /\ Put(p, k).at = "idle"
      /\ \A q \in Processes : q # p => Put(q, k)' = Put(q, k)
    BY <1>1, OtherPuts DEF Look
<1>3. UNCHANGED <<content, tmp, published, broken, ended>>
    BY DEF Look
<1>4. FilesOf(k)' \subseteq FilesOf(k)
    BY <1>2, <1>3 DEF FilesOf
<1>5. NamesSettle(k)'
    BY <1>2, <1>3 DEF Settles, NamesSettle, HasOpen
<1>6. \A f : BeingWritten(f, k) => BeingWritten(f, k)'
    BY <1>2 DEF BeingWritten
<1>7. BytesSettle(k)'
    BY <1>3, <1>4, <1>6 DEF Settles, BytesSettle, OneBody
<1> QED
    BY <1>5, <1>7 DEF Settles

\* The temporary file is opened, never the published one.
LEMMA SettlesOpen ==
    ASSUME IInv, NEW p \in Processes, NEW k \in Keys, Settles(k), Open(p, k)
    PROVE  Settles(k)'
<1>1. TypeOK
    BY DEF IInv
<1>2. PICK f \in Files : /\ f # published[k]
                         /\ content' = [content EXCEPT ![f] = Empty]
                         /\ tmp' = [tmp EXCEPT ![k] = f]
                         /\ Goes(p, k, "open", Put(p, k).body, f)
    <2> DEFINE g == IF tmp[k] = None THEN CHOOSE h \in Free : TRUE ELSE tmp[k]
    <2>1. g \in Files /\ g # published[k]
        <3>1. CASE tmp[k] = None
            <4>1. g \in Files /\ g \notin FilesOf(k) /\ g # None
                BY <1>1, <3>1, FreeIsNobodys, CacheAssumption DEF Open, None
            <4> HIDE DEF g
            <4> QED
                BY <4>1 DEF FilesOf
        <3>2. CASE tmp[k] # None
            BY <1>1, <3>2 DEF Settles, NamesSettle, TypeOK
        <3> QED
            BY <3>1, <3>2
    <2>2. /\ content' = [content EXCEPT ![g] = Empty]
          /\ tmp' = [tmp EXCEPT ![k] = g]
          /\ Goes(p, k, "open", Put(p, k).body, g)
        BY DEF Open
    <2> HIDE DEF g
    <2> QED
        BY <2>1, <2>2
<1>3. Put(p, k).at = "missed" /\ UNCHANGED <<published, broken, ended>>
    BY DEF Open
<1>4. /\ Put(p, k)' = [at |-> "open", body |-> Put(p, k).body, file |-> f]
      /\ \A q \in Processes : q # p => Put(q, k)' = Put(q, k)
    BY <1>2, OtherPuts
<1>5. f # None /\ tmp'[k] = f
    BY <1>1, <1>2, CacheAssumption DEF TypeOK, None
<1>6. content'[f] = Empty /\ \A g \in Files : g # f => content'[g] = content[g]
    BY <1>1, <1>2 DEF TypeOK
<1>7. NamesSettle(k)'
    <2>1. NamesSettle(k) /\ published' = published /\ ended' = ended
        BY <1>3 DEF Settles
    <2> QED
        BY <1>2, <1>5, <2>1 DEF NamesSettle
<1>8. BeingWritten(f, k)' /\ \A g : BeingWritten(g, k) => BeingWritten(g, k)'
    <2>1. BeingWritten(f, k)'
        BY <1>4 DEF BeingWritten
    <2>2. ASSUME NEW q \in Processes, Put(q, k).at = "open" PROVE Put(q, k)' = Put(q, k)
        BY <1>3, <1>4, <2>2
    <2> QED
        BY <2>1, <2>2 DEF BeingWritten
<1>9. FilesOf(k)' \subseteq FilesOf(k) \cup {f} /\ FilesOf(k) \subseteq Files
    BY <1>1, <1>2, <1>3, <1>4, <1>5, PutType DEF FilesOf, TypeOK
<1>10. ASSUME OneBody(k), k \notin broken PROVE BytesSettle(k)'
    <2>1. /\ \A g \in FilesOf(k) : content[g] \in Bodies[k] \cup {Empty}
          /\ \A g \in {tmp[k], published[k]} \ {None} : content[g] \in Bodies[k] \/ BeingWritten(g, k)
        BY <1>10 DEF Settles, BytesSettle
    <2>2. \A g \in FilesOf(k)' : content'[g] \in Bodies[k] \cup {Empty}
        <3>1. ASSUME NEW g \in FilesOf(k) PROVE content'[g] \in Bodies[k] \cup {Empty}
            BY <1>6, <1>9, <2>1
        <3> QED
            BY <1>6, <1>9, <3>1
    <2>3. published[k] # None => content'[published[k]] = content[published[k]]
        BY <1>1, <1>2, <1>6 DEF TypeOK
    <2>4. \A g \in {tmp'[k], published'[k]} \ {None} : content'[g] \in Bodies[k] \/ BeingWritten(g, k)'
        BY <1>3, <1>5, <1>8, <2>1, <2>3
    <2> QED
        BY <2>2, <2>4 DEF BytesSettle
<1>11. BytesSettle(k)'
    BY <1>3, <1>10 DEF BytesSettle
<1> QED
    BY <1>7, <1>11 DEF Settles

\* Over the same bytes, or over nothing, a write leaves the whole of them.
LEMMA SettlesWrite ==
    ASSUME IInv, NEW p \in Processes, NEW k \in Keys, Settles(k), Write(p, k)
    PROVE  Settles(k)'
<1>1. TypeOK /\ Putting(k)
    BY DEF IInv, KeyInv
<1>2. PICK f \in FilesOf(k) \cap Files, b \in Bodies[k] : f = Put(p, k).file /\ b = Put(p, k).body
    BY <1>1, PutType DEF Write, Putting, HasOpen, FilesOf, TypeOK
<1>3. PICK c \in Written(content[f], b) : content' = [content EXCEPT ![f] = c]
    BY <1>2 DEF Write
<1>4. /\ Put(p, k).at = "open"
      /\ Goes(p, k, "written", b, f)
      /\ UNCHANGED <<tmp, published, broken, ended>>
    BY <1>2 DEF Write
<1>5. /\ Put(p, k)' = [at |-> "written", body |-> b, file |-> f]
      /\ \A q \in Processes : q # p => Put(q, k)' = Put(q, k)
    BY <1>4, OtherPuts
<1>6. NamesSettle(k)'
    <2>1. \A q \in Processes : HasOpen(q, k)' => HasOpen(q, k)
        BY <1>4, <1>5 DEF HasOpen
    <2> QED
        BY <1>4, <2>1 DEF Settles, NamesSettle
<1>7. content'[f] = c /\ \A g \in Files : g # f => content'[g] = content[g]
    BY <1>1, <1>2, <1>3 DEF TypeOK
<1>8. FilesOf(k)' \subseteq FilesOf(k)
    BY <1>2, <1>4, <1>5 DEF FilesOf
<1>9. FilesOf(k) \subseteq Files /\ {tmp[k], published[k]} \ {None} \subseteq FilesOf(k)
    BY <1>1, PutType DEF FilesOf, TypeOK
<1>10. ASSUME OneBody(k), k \notin broken PROVE BytesSettle(k)'
    <2>1. /\ \A g \in FilesOf(k) : content[g] \in Bodies[k] \cup {Empty}
          /\ \A g \in {tmp[k], published[k]} \ {None} : content[g] \in Bodies[k] \/ BeingWritten(g, k)
        BY <1>10 DEF Settles, BytesSettle
    <2>2. c = b
        <3>1. content[f] = Empty \/ content[f] = b
            BY <1>2, <1>10, <2>1 DEF OneBody
        <3>2. b \in Nat
            BY CacheAssumption
        <3> QED
            BY <1>3, <3>1, <3>2 DEF Written, Empty, Torn
    <2>3. ASSUME NEW g \in FilesOf(k) PROVE content'[g] \in Bodies[k] \cup {Empty}
        BY <1>2, <1>7, <1>9, <2>1, <2>2
    <2>4. ASSUME NEW g \in {tmp[k], published[k]} \ {None}
          PROVE  content'[g] \in Bodies[k] \/ BeingWritten(g, k)'
        <3>1. CASE g = f
            BY <1>2, <1>7, <2>2, <3>1
        <3>2. CASE g # f
            <4>1. content'[g] = content[g]
                BY <1>7, <1>9, <3>2
            <4>2. BeingWritten(g, k) => BeingWritten(g, k)'
                BY <1>2, <1>5, <3>2 DEF BeingWritten
            <4> QED
                BY <2>1, <4>1, <4>2
        <3> QED
            BY <3>1, <3>2
    <2> QED
        BY <1>4, <1>8, <2>3, <2>4 DEF BytesSettle
<1>11. BytesSettle(k)'
    BY <1>4, <1>10 DEF BytesSettle
<1> QED
    BY <1>6, <1>11 DEF Settles

\* A Put ends on a published key: its own rename published it, or another's did.
LEMMA SettlesEnd ==
    ASSUME IInv, NEW p \in Processes, NEW k \in Keys, Settles(k),
           WriteFails(p, k) \/ Rename(p, k) \/ RenameFails(p, k)
    PROVE  Settles(k)'
<1>1. TypeOK
    BY DEF IInv
<1>2. /\ Put(p, k)' = NotPutting
      /\ \A q \in Processes : q # p => Put(q, k)' = Put(q, k)
    BY OtherPutsEnd DEF WriteFails, AfterFailedWrite, Rename, RenameFails
<1>3. \A q \in Processes : HasOpen(q, k)' => HasOpen(q, k)
    BY <1>2 DEF HasOpen, NotPutting
<1>4. CASE WriteFails(p, k)
    <2>1. NamesSettle(k)'
        BY <1>3, <1>4 DEF WriteFails, Settles, NamesSettle
    <2>2. k \in broken'
        BY <1>4 DEF WriteFails
    <2> QED
        BY <2>1, <2>2 DEF Settles, BytesSettle
<1>5. ASSUME Rename(p, k) \/ RenameFails(p, k), UNCHANGED <<content, broken>>,
             {tmp'[k], published'[k]} \subseteq {tmp[k], published[k], None}
      PROVE  BytesSettle(k)'
    <2>1. FilesOf(k)' \subseteq FilesOf(k)
        BY <1>2, <1>5 DEF FilesOf, NotPutting
    <2>2. \A f : BeingWritten(f, k) => BeingWritten(f, k)'
        <3>1. Put(p, k).at = "written"
            BY <1>5 DEF Rename, RenameFails
        <3>2. ASSUME NEW q \in Processes, Put(q, k).at = "open" PROVE Put(q, k)' = Put(q, k)
            BY <1>2, <3>1, <3>2
        <3> QED
            BY <3>2 DEF BeingWritten
    <2>3. BytesSettle(k)
        BY DEF Settles
    <2> QED
        BY <1>5, <2>1, <2>2, <2>3 DEF BytesSettle
<1>6. CASE Rename(p, k)
    <2>1. tmp'[k] = None /\ published'[k] = tmp[k] /\ tmp[k] # None /\ UNCHANGED <<content, broken>>
        BY <1>1, <1>6 DEF Rename, TypeOK
    <2>2. NamesSettle(k)'
        BY <2>1 DEF NamesSettle
    <2>3. BytesSettle(k)'
        BY <1>5, <1>6, <2>1
    <2> QED
        BY <2>2, <2>3 DEF Settles
<1>7. CASE RenameFails(p, k)
    <2>1. HasOpen(p, k) /\ tmp[k] = None /\ UNCHANGED <<content, tmp, published, broken>>
        BY <1>7 DEF RenameFails, HasOpen
    <2>2. NamesSettle(k)'
        BY <1>3, <2>1 DEF Settles, NamesSettle
    <2>3. BytesSettle(k)'
        BY <1>5, <1>7, <2>1
    <2> QED
        BY <2>2, <2>3 DEF Settles
<1> QED
    BY <1>4, <1>6, <1>7

\* A process that dies breaks the keys it had open, and touches no other.
LEMMA SettlesPutFails ==
    ASSUME IInv, NEW p \in Processes, NEW k \in Keys, Settles(k), PutFails(p, k)
    PROVE  Settles(k)'
<1>1. /\ Put(p, k)' = NotPutting
      /\ \A q \in Processes : q # p => Put(q, k)' = Put(q, k)
    BY OtherPutsEnd DEF PutFails
<1>2. UNCHANGED <<content, tmp, published, broken, ended>> /\ Put(p, k).at # "open"
    BY DEF PutFails
<1>3. NamesSettle(k)'
    <2>1. \A q \in Processes : HasOpen(q, k)' => HasOpen(q, k)
        BY <1>1 DEF HasOpen, NotPutting
    <2> QED
        BY <1>2, <2>1 DEF Settles, NamesSettle
<1>4. BytesSettle(k)'
    <2>1. FilesOf(k)' \subseteq FilesOf(k)
        BY <1>1, <1>2 DEF FilesOf, NotPutting
    <2>2. ASSUME NEW q \in Processes, Put(q, k).at = "open" PROVE Put(q, k)' = Put(q, k)
        BY <1>1, <1>2, <2>2
    <2>3. \A f : BeingWritten(f, k) => BeingWritten(f, k)'
        BY <2>2 DEF BeingWritten
    <2>4. BytesSettle(k)
        BY DEF Settles
    <2> QED
        BY <1>2, <2>1, <2>3, <2>4 DEF BytesSettle
<1> QED
    BY <1>3, <1>4 DEF Settles

LEMMA SettlesKill ==
    ASSUME IInv, NEW p \in Processes, NEW k \in Keys, Settles(k), Kill(p)
    PROVE  Settles(k)'
<1> DEFINE cut == {Put(p, j).file : j \in {i \in Keys : Put(p, i).at = "open"}}
<1>1. TypeOK /\ UNCHANGED <<tmp, published, ended>>
    BY DEF IInv, Kill
<1>2. /\ Put(p, k)' = NotPutting
      /\ \A q \in Processes : q # p => Put(q, k)' = Put(q, k)
    <2>1. put' = [x \in Processes \X Keys |-> IF x[1] = p THEN NotPutting ELSE put[x]]
        BY DEF Kill
    <2> QED
        BY <2>1 DEF Put
<1>3. \A q \in Processes : HasOpen(q, k)' => HasOpen(q, k)
    BY <1>2 DEF HasOpen, NotPutting
<1>4. NamesSettle(k)'
    BY <1>1, <1>3 DEF Settles, NamesSettle
<1>5. CASE HasOpen(p, k)
    <2>1. k \in broken'
        BY <1>5 DEF Kill
    <2> QED
        BY <1>4, <2>1 DEF Settles, BytesSettle
<1>6. CASE ~HasOpen(p, k)
    <2>1. FilesOf(k)' \subseteq FilesOf(k)
        BY <1>1, <1>2 DEF FilesOf, NotPutting
    <2>2. ASSUME NEW f \in FilesOf(k) PROVE content'[f] = content[f]
        <3>1. f \in Files
            BY <1>1, PutType DEF FilesOf, TypeOK
        <3>2. PICK part \in SUBSET cut : content' = [g \in Files |-> IF g \in part THEN Torn ELSE content[g]]
            BY DEF Kill
        <3>3. ASSUME NEW j \in Keys, Put(p, j).at = "open", Put(p, j).file = f PROVE FALSE
            <4>1. j # k
                BY <1>6, <3>3 DEF HasOpen
            <4>2. f \in FilesOf(j)
                BY <3>1, <3>3, CacheAssumption DEF FilesOf, None
            <4> QED
                BY <2>2, <4>1, <4>2 DEF IInv, Apart
        <3>4. f \notin part
            BY <3>3
        <3> QED
            BY <3>1, <3>2, <3>4
    <2>3. \A f : BeingWritten(f, k) => BeingWritten(f, k)'
        BY <1>2, <1>6 DEF BeingWritten, HasOpen
    <2>4. {tmp[k], published[k]} \ {None} \subseteq FilesOf(k)
        BY DEF FilesOf
    <2>5. BytesSettle(k) /\ (k \in broken => k \in broken')
        BY DEF Settles, Kill
    <2>6. BytesSettle(k)'
        BY <1>1, <2>1, <2>2, <2>3, <2>4, <2>5 DEF BytesSettle
    <2> QED
        BY <1>4, <2>6 DEF Settles
<1> QED
    BY <1>5, <1>6

\* A Put that ended leaves its key on disk, whoever's rename came first; and if
\* all wrote the same bytes and none broke off, whole, once the last has ended.
THEOREM PutsSettle == CacheSpec => []EndedPutsSettle
<1> DEFINE SInv == \A k \in Keys : Settles(k)
<1>1. CacheInit => SInv
    <2> SUFFICES ASSUME CacheInit, NEW k \in Keys PROVE Settles(k)
        OBVIOUS
    <2>1. FilesOf(k) = {} /\ tmp[k] = None /\ published[k] = None /\ ended = {}
        BY DEF CacheInit, FilesOf, Put, NotPutting
    <2>2. \A p \in Processes : ~HasOpen(p, k)
        BY DEF CacheInit, HasOpen, Put, NotPutting
    <2> QED
        BY <2>1, <2>2 DEF Settles, NamesSettle, BytesSettle
<1>2. ASSUME IInv, SInv, [CacheNext]_cacheVars, NEW j \in Keys PROVE Settles(j)'
    <2>1. ASSUME NEW p \in Processes, NEW k \in Keys,
                 \/ Look(p, k) \/ Open(p, k) \/ Write(p, k) \/ WriteFails(p, k)
                 \/ Rename(p, k) \/ RenameFails(p, k) \/ PutFails(p, k)
          PROVE  Settles(j)'
        <3>1. CASE j = k
            BY <1>2, <2>1, <3>1, SettlesLook, SettlesOpen, SettlesWrite, SettlesEnd, SettlesPutFails
        <3>2. CASE j # k
            BY <1>2, <2>1, <3>2, SettlesElsewhere
        <3> QED
            BY <3>1, <3>2
    <2>2. ASSUME NEW p \in Processes, Kill(p) PROVE Settles(j)'
        BY <1>2, <2>2, SettlesKill
    <2>3. CASE UNCHANGED cacheVars
        <3>1. /\ tmp'[j] = tmp[j] /\ published'[j] = published[j] /\ ended' = ended /\ broken' = broken
              /\ \A q \in Processes : Put(q, j)' = Put(q, j)
              /\ \A f : content'[f] = content[f]
            BY <2>3 DEF cacheVars, Put
        <3> QED
            BY <1>2, <3>1, SettlesStill
    <2> QED
        BY <1>2, <2>1, <2>2, <2>3 DEF CacheNext, Stored
<1>3. IInv /\ SInv => EndedPutsSettle
    <2> SUFFICES ASSUME IInv, SInv, NEW k \in ended, \A p \in Processes : ~HasOpen(p, k)
                 PROVE  published[k] # None /\ (OneBody(k) /\ k \notin broken => Whole(k))
        BY DEF EndedPutsSettle
    <2>1. k \in Keys
        BY DEF IInv, TypeOK
    <2>2. Settles(k) /\ \A f : ~BeingWritten(f, k)
        BY <2>1 DEF BeingWritten, HasOpen
    <2> QED
        BY <2>2 DEF Settles, NamesSettle, BytesSettle, Whole
<1>4. SInv /\ IInv /\ [CacheNext]_cacheVars => SInv'
    BY <1>2
<1> HIDE DEF SInv
<1> QED
    BY <1>1, <1>3, <1>4, Invariance, PTL DEF CacheSpec
=============================================================================
