----------------------------- MODULE CfApiProofs ------------------------------
(***************************************************************************)
(* For every set of files with any sizes, any chunk and any set of faults: *)
(* what the callbacks, the fetches and the teardown of the Cloud Files     *)
(* backend keep to.                                                        *)
(***************************************************************************)
EXTENDS CfApi, TLAPS

\* Callbacks run only between a connect and the end of its disconnect, and all that
\* time the Context lives; a refused disconnect is the one thing that breaks this.
LifeInv ==
    /\ pc \in {"mounted", "drain"} => ctx = "live"
    /\ \/ "disconnect" \in failed
       \/ /\ connected => pc = "mounted"
          /\ ~Quiet => pc \in {"mounted", "drain"}

\* A registration is being set up, in use, being taken down, or what a crash or a
\* refused unregister has left.
RegistrationInv ==
    registered => \/ pc \in {"connect", "undo_register", "mounted", "drain", "unregister"}
                  \/ failed \intersect {"unregister", "crash"} # {}

\* After the removal the directory holds no placeholder.
RemovalInv ==
    pc \in {"drop", "ended"} =>
        disk \intersect Entries = {} \/ failed \intersect {"remove", "disconnect"} # {}

\* A fetch has handed over bytes below its count, all of them readable, and has
\* failed none but those from its count on, which ends it.
FetchInv(f) ==
    /\ sent[f] \in 0 .. Readable[f]
    /\ got[f] \subseteq Range(0, sent[f])
    /\ denied[f] \subseteq Range(sent[f], Size[f] - sent[f])
    /\ cb[f] \in {"open", "stream"} => denied[f] = {}

\* A fetch has its handle open from the open to the release.
HandleInv(f) == fh[f] = TRUE => cb[f] \in {"stream", "release"}

IInv ==
    /\ TypeOK
    /\ LifeInv /\ RegistrationInv /\ RemovalInv
    /\ \A f \in Files : FetchInv(f) /\ HandleInv(f)

------------------------------------------------------------------------------
(* The type invariant *)

\* Bytes below a count are bytes of the file.
LEMMA RangeFacts ==
    ASSUME NEW f \in Files, NEW a \in Nat, NEW n \in Nat, a + n <= Size[f]
    PROVE  Range(a, n) \subseteq Whole(f)
BY CfApiAssumption DEF Range, Whole

LEMMA RangeNat ==
    ASSUME NEW a \in Nat, NEW n \in Nat
    PROVE  Range(a, n) \subseteq Nat
BY DEF Range

LEMMA WantFacts ==
    ASSUME TypeOK, NEW f \in Files
    PROVE  Want(f) \in Nat /\ sent[f] + Want(f) <= Size[f]
BY CfApiAssumption DEF TypeOK, Want, Least

\* What is passed on of a count is no more than was asked for.
LEMMA ClampFacts ==
    ASSUME TypeOK, NEW f \in Files, NEW n \in Counts(f)
    PROVE  /\ n \in Nat /\ Clamp(f, n) \in Nat
           /\ sent[f] + Clamp(f, n) <= Size[f]
           /\ sent[f] <= Readable[f] => sent[f] + Clamp(f, n) <= Readable[f]
<1>1. sent[f] \in Nat /\ Readable[f] \in Nat /\ Size[f] \in Nat
  BY CfApiAssumption DEF TypeOK
<1> QED
  BY <1>1, WantFacts DEF Counts, Clamp, Least

LEMMA InitIInv == Init => IInv
<1> SUFFICES ASSUME Init PROVE IInv
  OBVIOUS
<1>1. /\ cb = [f \in Files |-> "none"] /\ fh = [f \in Files |-> FALSE]
      /\ sent = [f \in Files |-> 0] /\ got = [f \in Files |-> {}]
      /\ denied = [f \in Files |-> {}] /\ signalled = [f \in Files |-> FALSE]
  BY DEF Init, Each
<1>2. TypeOK
  <2>1. fh \in [Files -> BOOLEAN] /\ signalled \in [Files -> BOOLEAN]
    BY <1>1, Zenon
  <2>2. \A f \in Files : sent[f] = 0 /\ got[f] = {} /\ denied[f] = {} /\ Size[f] \in Nat
    BY <1>1, CfApiAssumption
  <2>3. sent \in [Files -> Nat] /\ got \in [Files -> SUBSET Nat] /\ denied \in [Files -> SUBSET Nat]
    BY <1>1
  <2>4. cb \in [Files -> {"none", "open", "stream", "release", "done"}]
    BY <1>1
  <2>5. \A f \in Files : /\ sent[f] <= Size[f]
                         /\ got[f] \subseteq Whole(f) /\ denied[f] \subseteq Whole(f)
    BY <2>2
  <2>6. /\ pc = "idle" /\ mounts \in 0 .. MaxMounts
        /\ registered = FALSE /\ connected = FALSE /\ wrote = "none"
        /\ ctx = "none" /\ disk = {} /\ failed = {} /\ lister = "none" /\ prepared = {}
        /\ dir \in Folders
    BY CfApiAssumption DEF Init, Folders
  <2> QED BY <2>1, <2>3, <2>4, <2>5, <2>6, Zenon DEF TypeOK
<1>3. LifeInv /\ RegistrationInv /\ RemovalInv
  BY <1>1 DEF Init, LifeInv, RegistrationInv, RemovalInv, Quiet, Running
<1>4. ASSUME NEW f \in Files PROVE FetchInv(f) /\ HandleInv(f)
  BY <1>1, CfApiAssumption DEF FetchInv, HandleInv
<1> QED BY <1>2, <1>3, <1>4 DEF IInv

\* A range that is given or denied lies in the file, so the sets of bytes stay there.
LEMMA GiveType ==
    ASSUME TypeOK, NEW f \in Files, NEW a \in Nat, NEW n \in Nat, a + n <= Size[f], Give(f, a, n)
    PROVE  /\ got' \in [Files -> SUBSET Nat] /\ denied' \in [Files -> SUBSET Nat]
           /\ signalled' \in [Files -> BOOLEAN]
           /\ \A g \in Files : got'[g] \subseteq Whole(g) /\ denied'[g] \subseteq Whole(g)
<1>1. Range(a, n) \subseteq Whole(f) /\ Range(a, n) \subseteq Nat
  BY RangeFacts, RangeNat
<1>2. signalled' \in [Files -> BOOLEAN]
  BY Zenon DEF TypeOK, Give
<1> QED BY <1>1, <1>2 DEF TypeOK, Give

LEMMA DenyType ==
    ASSUME TypeOK, NEW f \in Files, NEW a \in Nat, NEW n \in Nat, a + n <= Size[f], Deny(f, a, n)
    PROVE  /\ got' \in [Files -> SUBSET Nat] /\ denied' \in [Files -> SUBSET Nat]
           /\ signalled' \in [Files -> BOOLEAN]
           /\ \A g \in Files : got'[g] \subseteq Whole(g) /\ denied'[g] \subseteq Whole(g)
<1>1. Range(a, n) \subseteq Whole(f) /\ Range(a, n) \subseteq Nat
  BY RangeFacts, RangeNat
<1>2. signalled' \in [Files -> BOOLEAN]
  BY Zenon DEF TypeOK, Deny
<1> QED BY <1>1, <1>2 DEF TypeOK, Deny

\* Failing the rest of a fetch fails bytes of the file.
LEMMA FailType ==
    ASSUME TypeOK, NEW f \in Files, Fail(f),
           UNCHANGED <<life, store, listing, fh>>
    PROVE  TypeOK'
<1>1. sent[f] \in Nat /\ Size[f] - sent[f] \in Nat /\ sent[f] + (Size[f] - sent[f]) <= Size[f]
  BY CfApiAssumption DEF TypeOK
<1>2. Deny(f, sent[f], Size[f] - sent[f])
  BY DEF Fail, RestFrom
<1>3. /\ got' \in [Files -> SUBSET Nat] /\ denied' \in [Files -> SUBSET Nat]
      /\ signalled' \in [Files -> BOOLEAN]
      /\ \A g \in Files : got'[g] \subseteq Whole(g) /\ denied'[g] \subseteq Whole(g)
  BY <1>1, <1>2, DenyType
<1> QED BY <1>3 DEF Fail, TypeOK, life, store, listing

\* What a step of the life cycle leaves alone keeps its type.
LEMMA TypeNext == TypeOK /\ [Next]_vars => TypeOK'
<1> SUFFICES ASSUME TypeOK, [Next]_vars PROVE TypeOK'
  OBVIOUS
<1> USE DEF life, store, listing, fetch
<1>1. CASE Mount
  BY <1>1, CfApiAssumption DEF Mount, TypeOK
<1>2. CASE Register
  BY <1>2 DEF Register, TypeOK
<1>3. CASE Connect
  BY <1>3 DEF Connect, TypeOK
<1>4. CASE UndoRegister
  BY <1>4 DEF UndoRegister, TypeOK
<1>5. CASE Teardown
  <2>1. CASE Remove
    BY <1>5, <2>1 DEF Remove, TypeOK
  <2> QED BY <1>5, <2>1 DEF Teardown, Disconnect, Drain, Unregister, Drop, TypeOK
<1>6. CASE StartList
  BY <1>6 DEF StartList, TypeOK
<1>7. ASSUME NEW f \in Files, StartFetch(f) PROVE TypeOK'
  <2>1. signalled' \in [Files -> BOOLEAN]
    BY <1>7, Zenon DEF StartFetch, TypeOK
  <2>2. Whole(f) \subseteq Nat
    BY CfApiAssumption DEF Whole, Range
  <2> QED BY <1>7, <2>1, <2>2, CfApiAssumption DEF StartFetch, TypeOK
<1>8. CASE List
  <2>1. prepared' \subseteq Entries /\ lister' = "transfer" /\ UNCHANGED <<life, store, dir, fetch>>
    BY <1>8 DEF List
  <2> QED BY <2>1 DEF TypeOK
<1>9. CASE TransferPlaceholders
  BY <1>9 DEF TransferPlaceholders, TypeOK, Folders
<1>10. ASSUME NEW f \in Files, Open(f) PROVE TypeOK'
  <2>1. fh' \in [Files -> BOOLEAN]
    BY <1>10, Zenon DEF Open, TypeOK
  <2> QED BY <1>10, <2>1 DEF Open, TypeOK
<1>11. ASSUME NEW f \in Files, Stream(f) PROVE TypeOK'
  <2>1. CASE Size[f] = 0 /\ Give(f, 0, 0) /\ cb' = [cb EXCEPT ![f] = "release"] /\ UNCHANGED sent
    <3>1. /\ got' \in [Files -> SUBSET Nat] /\ denied' \in [Files -> SUBSET Nat]
          /\ signalled' \in [Files -> BOOLEAN]
          /\ \A g \in Files : got'[g] \subseteq Whole(g) /\ denied'[g] \subseteq Whole(g)
      BY <2>1, GiveType
    <3> QED BY <1>11, <2>1, <3>1 DEF Stream, TypeOK
  <2>2. ASSUME NEW n \in Counts(f),
               Give(f, sent[f], Clamp(f, n)),
               sent' = [sent EXCEPT ![f] = Advance(f, n)],
               cb' = [cb EXCEPT ![f] = IF Advance(f, n) < Size[f] THEN "stream" ELSE "release"]
        PROVE  TypeOK'
    <3>1. sent[f] \in Nat /\ Clamp(f, n) \in Nat /\ sent[f] + Clamp(f, n) <= Size[f]
      BY ClampFacts DEF TypeOK
    <3>2. /\ got' \in [Files -> SUBSET Nat] /\ denied' \in [Files -> SUBSET Nat]
          /\ signalled' \in [Files -> BOOLEAN]
          /\ \A g \in Files : got'[g] \subseteq Whole(g) /\ denied'[g] \subseteq Whole(g)
      BY <2>2, <3>1, GiveType
    <3>3. sent' \in [Files -> Nat] /\ \A g \in Files : sent'[g] <= Size[g]
      BY <2>2, <3>1 DEF TypeOK, Advance
    <3> QED BY <1>11, <2>2, <3>2, <3>3 DEF Stream, TypeOK
  <2>3. CASE Fail(f)
    BY <1>11, <2>3, FailType DEF Stream
  <2> QED BY <1>11, <2>1, <2>2, <2>3 DEF Stream
<1>12. ASSUME NEW f \in Files, ReadError(f) PROVE TypeOK'
  BY <1>12, FailType DEF ReadError
<1>13. ASSUME NEW f \in Files, Release(f) PROVE TypeOK'
  <2>1. fh' \in [Files -> BOOLEAN]
    BY <1>13, Zenon DEF Release, TypeOK
  <2> QED BY <1>13, <2>1 DEF Release, TypeOK
<1>14. CASE UserWrites
  BY <1>14 DEF UserWrites, Moment, TypeOK
<1>15. CASE Crash
  <2>1. fh' \in [Files -> BOOLEAN] /\ signalled' \in [Files -> BOOLEAN]
    BY <1>15, Zenon DEF Crash, Each
  <2>2. \A f \in Files : sent'[f] = 0 /\ got'[f] = {} /\ denied'[f] = {} /\ Size[f] \in Nat
    BY <1>15, CfApiAssumption DEF Crash, Each
  <2>3. /\ sent' \in [Files -> Nat]
        /\ got' \in [Files -> SUBSET Nat] /\ denied' \in [Files -> SUBSET Nat]
        /\ cb' \in [Files -> {"none", "open", "stream", "release", "done"}]
    BY <1>15 DEF Crash, Each
  <2>4. \A f \in Files : /\ sent'[f] <= Size[f]
                         /\ got'[f] \subseteq Whole(f) /\ denied'[f] \subseteq Whole(f)
    BY <2>2
  <2>5. /\ pc' = "idle" /\ connected' = FALSE /\ ctx' = "none"
        /\ lister' = "none" /\ prepared' = {} /\ dir' \in Folders
        /\ UNCHANGED <<mounts, registered, disk, wrote>>
        /\ failed' \subseteq {"disconnect", "unregister", "remove", "crash"}
    BY <1>15 DEF Crash, TypeOK, Folders
  <2> QED BY <2>1, <2>3, <2>4, <2>5, Zenon DEF TypeOK, Whole
<1>16. CASE UNCHANGED vars
  BY <1>16 DEF vars, TypeOK
<1> QED
  BY <1>1, <1>2, <1>3, <1>4, <1>5, <1>6, <1>7, <1>8, <1>9, <1>10, <1>11, <1>12, <1>13, <1>14,
     <1>15, <1>16 DEF Next, Callback

\* Type correctness of every step mount, the callbacks and unmount can take.
THEOREM TypeCorrect == Spec => []TypeOK
<1>1. Init => TypeOK
  BY InitIInv DEF IInv
<1> QED BY <1>1, TypeNext, PTL DEF Spec

------------------------------------------------------------------------------
(* The life cycle *)

LEMMA LifeNext == IInv /\ [Next]_vars => LifeInv'
<1> SUFFICES ASSUME IInv, [Next]_vars PROVE LifeInv'
  OBVIOUS
<1> USE DEF IInv, LifeInv, life, store, listing, fetch
<1>1. ASSUME UNCHANGED <<lister, cb>> PROVE Quiet' = Quiet
  BY <1>1 DEF Quiet, Running
<1>2. CASE Mount \/ Register \/ Connect \/ UndoRegister
  BY <1>1, <1>2 DEF Mount, Register, Connect, UndoRegister
<1>3. CASE Disconnect
  BY <1>1, <1>3 DEF Disconnect
<1>4. CASE Drain
  BY <1>1, <1>4 DEF Drain
<1>5. CASE Unregister \/ Remove \/ Drop
  BY <1>1, <1>5 DEF Unregister, Remove, Drop
<1>6. CASE StartList \/ \E f \in Files : StartFetch(f)
  BY <1>6 DEF StartList, StartFetch
<1>7. CASE Callback
  <2>1. ~Quiet
    BY <1>7 DEF Callback, List, TransferPlaceholders, Open, Stream, ReadError, Release,
                Quiet, Running
  <2>2. UNCHANGED life
    BY <1>7 DEF Callback, List, TransferPlaceholders, Open, Stream, ReadError, Release
  <2> QED BY <2>1, <2>2
<1>8. CASE UserWrites
  BY <1>1, <1>8 DEF UserWrites
<1>9. CASE Crash
  <2>1. Quiet'
    BY <1>9 DEF Crash, Each, Quiet, Running
  <2> QED BY <1>9, <2>1 DEF Crash
<1>10. CASE UNCHANGED vars
  BY <1>1, <1>10 DEF vars
<1> QED
  BY <1>2, <1>3, <1>4, <1>5, <1>6, <1>7, <1>8, <1>9, <1>10 DEF Next, Teardown

LEMMA RegistrationNext == IInv /\ [Next]_vars => RegistrationInv'
<1> SUFFICES ASSUME IInv, [Next]_vars PROVE RegistrationInv'
  OBVIOUS
<1> USE DEF IInv, RegistrationInv, life, store, listing, fetch
<1>1. CASE Mount \/ Register \/ Connect \/ UndoRegister
  BY <1>1 DEF Mount, Register, Connect, UndoRegister
<1>2. CASE Teardown
  BY <1>2 DEF Teardown, Disconnect, Drain, Unregister, Remove, Drop
<1>3. CASE StartList \/ (\E f \in Files : StartFetch(f)) \/ Callback \/ UserWrites
  BY <1>3 DEF StartList, StartFetch, Callback, List, TransferPlaceholders, Open, Stream,
              ReadError, Release, UserWrites
<1>4. CASE Crash
  BY <1>4 DEF Crash
<1>5. CASE UNCHANGED vars
  BY <1>5 DEF vars
<1> QED BY <1>1, <1>2, <1>3, <1>4, <1>5 DEF Next

\* Placeholders come only from a callback, and after the removal none runs.
LEMMA RemovalNext == IInv /\ [Next]_vars => RemovalInv'
<1> SUFFICES ASSUME IInv, [Next]_vars PROVE RemovalInv'
  OBVIOUS
<1> USE DEF IInv, RemovalInv, life, store, listing, fetch
<1>1. CASE Mount \/ Register \/ Connect \/ UndoRegister
  BY <1>1 DEF Mount, Register, Connect, UndoRegister
<1>2. CASE Teardown
  BY <1>2 DEF Teardown, Disconnect, Drain, Unregister, Remove, Drop
<1>3. CASE TransferPlaceholders
  BY <1>3 DEF TransferPlaceholders, LifeInv, Quiet
<1>4. CASE UserWrites
  BY <1>4, CfApiAssumption DEF UserWrites
<1>5. CASE StartList \/ List
           \/ \E f \in Files : StartFetch(f) \/ Open(f) \/ Stream(f) \/ ReadError(f) \/ Release(f)
  BY <1>5 DEF StartList, List, StartFetch, Open, Stream, ReadError, Release
<1>6. CASE Crash
  BY <1>6 DEF Crash
<1>7. CASE UNCHANGED vars
  BY <1>7 DEF vars
<1> QED BY <1>1, <1>2, <1>3, <1>4, <1>5, <1>6, <1>7 DEF Next, Callback

------------------------------------------------------------------------------
(* The fetches *)

\* Failing the rest of a fetch leaves what was handed over alone.
LEMMA FailFetch ==
    ASSUME IInv, NEW f \in Files, cb[f] = "stream", Fail(f)
    PROVE  \A g \in Files : FetchInv(g)'
<1>1. Deny(f, sent[f], Size[f] - sent[f]) /\ UNCHANGED sent /\ cb' = [cb EXCEPT ![f] = "release"]
  BY DEF Fail, RestFrom
<1>2. UNCHANGED got /\ \A g \in Files : g # f => denied'[g] = denied[g] /\ cb'[g] = cb[g]
  BY <1>1 DEF Deny, IInv, TypeOK
<1>3. denied'[f] \subseteq Range(sent[f], Size[f] - sent[f]) /\ cb'[f] = "release"
  BY <1>1 DEF Deny, IInv, FetchInv, TypeOK
<1> QED BY <1>1, <1>2, <1>3 DEF IInv, FetchInv

LEMMA FetchNext == IInv /\ [Next]_vars => \A g \in Files : FetchInv(g)'
<1> SUFFICES ASSUME IInv, [Next]_vars, NEW g \in Files PROVE FetchInv(g)'
  OBVIOUS
<1>0. TypeOK /\ FetchInv(g)
  BY DEF IInv
<1> USE DEF life, store, listing, fetch
<1>1. CASE UNCHANGED fetch
  BY <1>0, <1>1 DEF FetchInv
<1>2. ASSUME NEW f \in Files, StartFetch(f) PROVE FetchInv(g)'
  <2>1. CASE g = f
    <3>1. sent'[f] = 0 /\ got'[f] = {}
      BY <1>0, <1>2 DEF StartFetch, TypeOK
    <3>2. denied'[f] \subseteq Range(0, Size[f] - 0)
      <4>1. denied'[f] \subseteq Whole(f)
        BY <1>0, <1>2 DEF StartFetch, TypeOK
      <4>2. Size[f] - 0 = Size[f]
        BY CfApiAssumption
      <4> QED BY <4>1, <4>2 DEF Whole
    <3>3. (cb'[f] = "open" /\ denied'[f] = {}) \/ cb'[f] = "done"
      BY <1>0, <1>2 DEF StartFetch, TypeOK
    <3> QED BY <2>1, <3>1, <3>2, <3>3, CfApiAssumption DEF FetchInv
  <2>2. CASE g # f
    BY <1>0, <1>2, <2>2 DEF StartFetch, FetchInv, TypeOK
  <2> QED BY <2>1, <2>2
<1>3. CASE TransferPlaceholders
  BY <1>0, <1>3 DEF TransferPlaceholders, FetchInv
<1>4. ASSUME NEW f \in Files, Open(f) PROVE FetchInv(g)'
  BY <1>0, <1>4 DEF Open, FetchInv, TypeOK
<1>5. ASSUME NEW f \in Files, Stream(f) PROVE FetchInv(g)'
  <2>1. CASE Size[f] = 0 /\ Give(f, 0, 0) /\ cb' = [cb EXCEPT ![f] = "release"] /\ UNCHANGED sent
    <3>1. Range(0, 0) = {}
      BY DEF Range
    <3>2. UNCHANGED <<got, denied>>
      BY <1>0, <2>1, <3>1 DEF Give, TypeOK
    <3> QED BY <1>0, <2>1, <3>2 DEF FetchInv, TypeOK
  <2>2. ASSUME NEW n \in Counts(f),
               Give(f, sent[f], Clamp(f, n)),
               sent' = [sent EXCEPT ![f] = Advance(f, n)],
               cb' = [cb EXCEPT ![f] = IF Advance(f, n) < Size[f] THEN "stream" ELSE "release"]
        PROVE  FetchInv(g)'
    <3>1. CASE g # f
      BY <1>0, <2>2, <3>1 DEF Give, FetchInv, TypeOK
    <3>2. CASE g = f
      <4>1. sent[f] \in Nat /\ Clamp(f, n) \in Nat /\ sent[f] + Clamp(f, n) <= Readable[f]
        BY <1>0, <3>2, ClampFacts DEF TypeOK, FetchInv
      <4>2. sent'[f] = sent[f] + Clamp(f, n)
        BY <1>0, <2>2 DEF TypeOK, Advance
      <4>3. denied'[f] = {}
        BY <1>0, <1>5, <2>2, <3>2 DEF Give, Stream, FetchInv
      <4>4. got'[f] \subseteq got[f] \union Range(sent[f], Clamp(f, n))
        BY <1>0, <2>2 DEF Give, TypeOK
      <4>5. got'[f] \subseteq Range(0, sent'[f])
        BY <1>0, <3>2, <4>1, <4>2, <4>4 DEF FetchInv, Range
      <4> QED BY <3>2, <4>1, <4>2, <4>3, <4>5 DEF FetchInv
    <3> QED BY <3>1, <3>2
  <2>3. CASE Fail(f)
    BY <1>5, <2>3, FailFetch DEF Stream
  <2> QED BY <1>5, <2>1, <2>2, <2>3 DEF Stream
<1>6. ASSUME NEW f \in Files, ReadError(f) PROVE FetchInv(g)'
  BY <1>6, FailFetch DEF ReadError
<1>7. ASSUME NEW f \in Files, Release(f) PROVE FetchInv(g)'
  BY <1>0, <1>7 DEF Release, FetchInv, TypeOK
<1>8. CASE Crash
  BY <1>8, CfApiAssumption DEF Crash, Each, FetchInv
<1>9. CASE UNCHANGED vars
  BY <1>1, <1>9 DEF vars
<1> QED
  BY <1>1, <1>2, <1>3, <1>4, <1>5, <1>6, <1>7, <1>8, <1>9
     DEF Next, Callback, Teardown, Mount, Register, Connect, UndoRegister, Disconnect, Drain,
         Unregister, Remove, Drop, StartList, List, UserWrites

LEMMA HandleNext == IInv /\ [Next]_vars => \A g \in Files : HandleInv(g)'
<1> SUFFICES ASSUME IInv, [Next]_vars, NEW g \in Files PROVE HandleInv(g)'
  OBVIOUS
<1>0. TypeOK /\ HandleInv(g)
  BY DEF IInv
<1> USE DEF life, store, listing, fetch
<1>1. CASE UNCHANGED fetch
  BY <1>0, <1>1 DEF HandleInv
<1>2. ASSUME NEW f \in Files, StartFetch(f) PROVE HandleInv(g)'
  BY <1>0, <1>2 DEF StartFetch, HandleInv, TypeOK
<1>3. CASE TransferPlaceholders
  BY <1>0, <1>3 DEF TransferPlaceholders, Running, HandleInv
<1>4. ASSUME NEW f \in Files, Open(f) PROVE HandleInv(g)'
  BY <1>0, <1>4 DEF Open, HandleInv, TypeOK
<1>5. ASSUME NEW f \in Files, Stream(f) \/ ReadError(f) PROVE HandleInv(g)'
  <2>1. UNCHANGED fh /\ cb[f] = "stream"
    BY <1>5 DEF Stream, ReadError
  <2>2. cb' = [cb EXCEPT ![f] = "stream"] \/ cb' = [cb EXCEPT ![f] = "release"]
    BY <1>5 DEF Stream, ReadError, Fail
  <2> QED BY <1>0, <2>1, <2>2 DEF HandleInv, TypeOK
<1>6. ASSUME NEW f \in Files, Release(f) PROVE HandleInv(g)'
  BY <1>0, <1>6 DEF Release, HandleInv, TypeOK
<1>7. CASE Crash
  BY <1>7 DEF Crash, Each, HandleInv
<1>8. CASE UNCHANGED vars
  BY <1>1, <1>8 DEF vars
<1> QED
  BY <1>1, <1>2, <1>3, <1>4, <1>5, <1>6, <1>7, <1>8
     DEF Next, Callback, Teardown, Mount, Register, Connect, UndoRegister, Disconnect, Drain,
         Unregister, Remove, Drop, StartList, List, UserWrites

------------------------------------------------------------------------------
(* The safety theorems *)

LEMMA Inductive == Spec => []IInv
<1>1. IInv /\ [Next]_vars => IInv'
  BY TypeNext, LifeNext, RegistrationNext, RemovalNext, FetchNext, HandleNext DEF IInv
<1> QED BY InitIInv, <1>1, PTL DEF Spec

\* No callback ever runs without the Context its raw pointer leads to, unless the
\* platform has refused a disconnect: Mounted::unmount disconnects before it drops.
THEOREM ContextSafe == Spec => []("disconnect" \in failed \/ ContextOutlivesCallbacks)
<1>1. IInv => "disconnect" \in failed \/ ContextOutlivesCallbacks
  BY DEF IInv, LifeInv, ContextOutlivesCallbacks
<1> QED BY Inductive, <1>1, PTL

\* Whatever read_at returns, stream_chunks hands over only bytes that exist and fails
\* none that it has handed over.
THEOREM DataOrFailure == Spec => []DataOrFailureNeverBoth
<1>1. ASSUME IInv, NEW f \in Files
      PROVE  got[f] \intersect denied[f] = {} /\ got[f] \subseteq Range(0, Readable[f])
  <2>1. FetchInv(f) /\ sent[f] \in Nat /\ Readable[f] \in Nat /\ Size[f] \in Nat
    BY <1>1, CfApiAssumption DEF IInv, TypeOK
  <2> QED BY <2>1 DEF FetchInv, Range
<1>2. IInv => DataOrFailureNeverBoth
  BY <1>1 DEF DataOrFailureNeverBoth
<1> QED BY Inductive, <1>2, PTL

\* stream_fetch releases the handle it opened on every way out.
THEOREM HandlesReleasedAlways == Spec => []HandlesReleased
<1>1. ASSUME IInv, NEW f \in Files, fh[f] PROVE Running(f)
  <2>1. fh[f] = TRUE
    BY <1>1, Zenon DEF IInv, TypeOK
  <2> QED BY <1>1, <2>1 DEF IInv, HandleInv, Running
<1>2. IInv => HandlesReleased
  BY <1>1 DEF HandlesReleased
<1> QED BY Inductive, <1>2, PTL

\* What unmount leaves behind it was refused to remove, over any number of mounts and
\* crashes, unless a refused disconnect has let callbacks run on.
THEOREM TeardownClean == Spec => []("disconnect" \in failed \/ TeardownLeavesNothing)
<1>1. IInv => "disconnect" \in failed \/ TeardownLeavesNothing
  BY DEF IInv, LifeInv, RegistrationInv, RemovalInv, TeardownLeavesNothing
<1> QED BY Inductive, <1>1, PTL

------------------------------------------------------------------------------
(* Every fetch is answered *)

\* Sums and differences of multiples of the alignment are multiples.
LEMMA Multiple ==
    ASSUME NEW n \in Nat \ {0}, NEW a \in Nat
    PROVE  a % n = 0 <=> \E q \in Nat : a = n * q
<1>1. ASSUME a % n = 0 PROVE \E q \in Nat : a = n * q
  BY <1>1
<1>2. ASSUME NEW q \in Nat, a = n * q PROVE a % n = 0
  BY <1>2
<1> QED BY <1>1, <1>2

LEMMA MultipleSum ==
    ASSUME NEW n \in Nat \ {0}, NEW a \in Nat, NEW b \in Nat, a % n = 0, b % n = 0
    PROVE  (a + b) % n = 0
<1>1. PICK p \in Nat : a = n * p
  BY Multiple
<1>2. PICK q \in Nat : b = n * q
  BY Multiple
<1>3. a + b = n * (p + q) /\ p + q \in Nat /\ a + b \in Nat
  BY <1>1, <1>2
<1> QED BY <1>3, Multiple

LEMMA MultipleDifference ==
    ASSUME NEW n \in Nat \ {0}, NEW a \in Nat, NEW b \in Nat, a <= b, a % n = 0, b % n = 0
    PROVE  (b - a) % n = 0
<1>1. PICK p \in Nat : a = n * p
  BY Multiple
<1>2. PICK q \in Nat : b = n * q
  BY Multiple
<1>3. b - a = n * (q - p) /\ b - a \in Nat
  BY <1>1, <1>2
<1>4. q - p \in Nat
  BY <1>1, <1>2
<1> QED BY <1>3, <1>4, Multiple

\* read_at stops short only where the platform takes a piece that ends there.
ReadsAligned == \A f \in Files : Readable[f] % Align = 0 \/ Readable[f] = Size[f]

\* A streaming fetch has handed over everything below its count, in pieces the
\* platform takes; one that is over has answered every byte.
AnswerInv(f) ==
    /\ cb[f] = "open" => sent[f] = 0 /\ got[f] = {}
    /\ cb[f] = "stream" => /\ got[f] = Range(0, sent[f]) /\ sent[f] % Align = 0
                           /\ sent[f] < Size[f] \/ Size[f] = 0
    /\ cb[f] \in {"release", "done"} =>
         signalled[f] = TRUE /\ got[f] \union denied[f] = Whole(f)

AnswersInv == \A f \in Files : AnswerInv(f)

\* Every piece that stream_chunks passes on is one the platform takes.
LEMMA PiecesAccepted ==
    ASSUME IInv, ReadsAligned, NEW f \in Files, sent[f] % Align = 0, NEW n \in Counts(f)
    PROVE  /\ Accepts(f, sent[f], Clamp(f, n))
           /\ sent[f] + Clamp(f, n) >= Size[f] \/ (sent[f] + Clamp(f, n)) % Align = 0
<1>1. /\ sent[f] \in Nat /\ Readable[f] \in Nat /\ Size[f] \in Nat
      /\ sent[f] <= Readable[f] /\ Readable[f] <= Size[f]
      /\ Align \in Nat \ {0} /\ TRANSFER_CHUNK \in Nat /\ TRANSFER_CHUNK % Align = 0
      /\ Clamp(f, n) \in Nat
  BY CfApiAssumption, ClampFacts DEF IInv, TypeOK, FetchInv
<1>2. \/ Clamp(f, n) = TRANSFER_CHUNK
      \/ Clamp(f, n) = Size[f] - sent[f]
      \/ Clamp(f, n) = Readable[f] - sent[f]
  BY <1>1 DEF Counts, Clamp, Want, Least
<1>3. CASE Clamp(f, n) % Align = 0
  BY <1>1, <1>3, MultipleSum DEF Accepts
<1>4. CASE Clamp(f, n) = Size[f] - sent[f]
  BY <1>1, <1>4 DEF Accepts
<1>5. CASE Clamp(f, n) = Readable[f] - sent[f]
  <2>1. CASE Readable[f] = Size[f]
    BY <1>4, <1>5, <2>1
  <2>2. CASE Readable[f] % Align = 0
    BY <1>1, <1>3, <1>5, <2>2, MultipleDifference
  <2> QED BY <2>1, <2>2 DEF ReadsAligned
<1> QED BY <1>1, <1>2, <1>3, <1>4, <1>5

LEMMA FailAnswers ==
    ASSUME IInv, AnswersInv, NEW f \in Files, cb[f] = "stream", Fail(f)
    PROVE  AnswersInv'
<1>1. Deny(f, sent[f], Size[f] - sent[f]) /\ UNCHANGED sent /\ cb' = [cb EXCEPT ![f] = "release"]
  BY DEF Fail, RestFrom
<1>2. sent[f] \in Nat /\ Size[f] \in Nat /\ sent[f] <= Size[f]
  BY CfApiAssumption DEF IInv, TypeOK
<1>3. Accepts(f, sent[f], Size[f] - sent[f])
  BY <1>2 DEF Accepts
<1>4. /\ UNCHANGED got
      /\ \A g \in Files : g # f => /\ denied'[g] = denied[g] /\ cb'[g] = cb[g]
                                   /\ signalled'[g] = signalled[g]
  BY <1>1 DEF Deny, IInv, TypeOK
<1>5. denied'[f] = denied[f] \union Range(sent[f], Size[f] - sent[f]) /\ cb'[f] = "release"
  BY <1>1, <1>3 DEF Deny, IInv, TypeOK
<1>6. signalled'[f] = TRUE
  BY <1>1, <1>3 DEF Deny, IInv, TypeOK
<1>7. got[f] \union denied'[f] = Whole(f)
  <2>1. got[f] = Range(0, sent[f]) /\ denied[f] = {}
    BY DEF AnswersInv, AnswerInv, IInv, FetchInv
  <2>2. Range(0, sent[f]) \union Range(sent[f], Size[f] - sent[f]) = Range(0, Size[f])
    BY <1>2 DEF Range
  <2> QED BY <1>5, <2>1, <2>2 DEF Whole
<1>8. AnswerInv(f)'
  BY <1>4, <1>5, <1>6, <1>7 DEF AnswerInv
<1>9. ASSUME NEW g \in Files, g # f PROVE AnswerInv(g)'
  BY <1>1, <1>4, <1>9 DEF AnswersInv, AnswerInv
<1> QED BY <1>8, <1>9 DEF AnswersInv

LEMMA AnswersNext ==
    ASSUME "open" \notin Faults, ReadsAligned, IInv, AnswersInv, [Next]_vars
    PROVE  AnswersInv'
<1>0. TypeOK
  BY DEF IInv
<1> USE DEF life, store, listing, fetch
<1>1. CASE UNCHANGED fetch
  BY <1>1 DEF AnswersInv, AnswerInv
<1>2. ASSUME NEW f \in Files, StartFetch(f) PROVE AnswersInv'
  <2>1. ASSUME NEW g \in Files, g # f PROVE AnswerInv(g)'
    BY <1>0, <1>2, <2>1 DEF StartFetch, AnswersInv, AnswerInv, TypeOK
  <2>2. AnswerInv(f)'
    BY <1>0, <1>2 DEF StartFetch, AnswerInv, TypeOK
  <2> QED BY <2>1, <2>2 DEF AnswersInv
<1>3. CASE TransferPlaceholders
  BY <1>3 DEF TransferPlaceholders, AnswersInv, AnswerInv
<1>4. ASSUME NEW f \in Files, Open(f) PROVE AnswersInv'
  <2>1. cb' = [cb EXCEPT ![f] = "stream"] /\ UNCHANGED <<sent, got, denied, signalled>>
    BY <1>4 DEF Open
  <2>2. Range(0, 0) = {} /\ 0 % Align = 0
    BY CfApiAssumption DEF Range
  <2>3. AnswerInv(f)'
    <3>1. sent[f] = 0 /\ got[f] = {} /\ cb'[f] = "stream"
      BY <1>0, <1>4, <2>1 DEF Open, AnswersInv, AnswerInv, TypeOK
    <3>2. 0 < Size[f] \/ Size[f] = 0
      BY CfApiAssumption
    <3> QED BY <2>1, <2>2, <3>1, <3>2 DEF AnswerInv
  <2>4. ASSUME NEW g \in Files, g # f PROVE AnswerInv(g)'
    BY <1>0, <2>1, <2>4 DEF AnswersInv, AnswerInv, TypeOK
  <2> QED BY <2>3, <2>4 DEF AnswersInv
<1>5. ASSUME NEW f \in Files, Stream(f) PROVE AnswersInv'
  <2>0. /\ cb[f] = "stream" /\ got[f] = Range(0, sent[f]) /\ sent[f] % Align = 0
        /\ sent[f] \in Nat /\ Size[f] \in Nat
    BY <1>0, <1>5, CfApiAssumption DEF Stream, AnswersInv, AnswerInv, TypeOK
  <2>1. CASE Size[f] = 0 /\ Give(f, 0, 0) /\ cb' = [cb EXCEPT ![f] = "release"] /\ UNCHANGED sent
    <3>1. Range(0, 0) = {} /\ Whole(f) = {} /\ Accepts(f, 0, 0)
      BY <2>1 DEF Range, Whole, Accepts
    <3>2. signalled'[f] = TRUE
      BY <1>0, <2>1, <3>1 DEF Give, TypeOK
    <3>3. UNCHANGED <<got, denied>> /\ \A g \in Files : g # f => signalled'[g] = signalled[g]
      BY <1>0, <2>1, <3>1 DEF Give, TypeOK
    <3>4. got[f] = {} /\ denied[f] = {}
      BY <1>0, <3>1 DEF TypeOK
    <3>5. AnswerInv(f)'
      BY <1>0, <2>1, <3>1, <3>2, <3>3, <3>4 DEF AnswerInv, TypeOK
    <3>6. ASSUME NEW g \in Files, g # f PROVE AnswerInv(g)'
      BY <1>0, <2>1, <3>3, <3>6 DEF AnswersInv, AnswerInv, TypeOK
    <3> QED BY <3>5, <3>6 DEF AnswersInv
  <2>2. ASSUME NEW n \in Counts(f),
               Give(f, sent[f], Clamp(f, n)),
               sent' = [sent EXCEPT ![f] = Advance(f, n)],
               cb' = [cb EXCEPT ![f] = IF Advance(f, n) < Size[f] THEN "stream" ELSE "release"]
        PROVE  AnswersInv'
    <3>1. Clamp(f, n) \in Nat /\ sent[f] + Clamp(f, n) <= Size[f]
      BY <1>0, ClampFacts
    <3>2. /\ Accepts(f, sent[f], Clamp(f, n))
          /\ sent[f] + Clamp(f, n) >= Size[f] \/ (sent[f] + Clamp(f, n)) % Align = 0
      BY <2>0, PiecesAccepted
    <3>3. sent'[f] = sent[f] + Clamp(f, n)
      BY <1>0, <2>2 DEF TypeOK, Advance
    <3>4. got'[f] = got[f] \union Range(sent[f], Clamp(f, n)) /\ UNCHANGED denied
      BY <1>0, <2>2, <3>2 DEF Give, TypeOK
    <3>5. signalled'[f] = TRUE
      BY <1>0, <2>2, <3>2 DEF Give, TypeOK
    <3>6. got'[f] = Range(0, sent'[f])
      BY <2>0, <3>1, <3>3, <3>4 DEF Range
    <3>7. ASSUME NEW g \in Files, g # f PROVE AnswerInv(g)'
      BY <1>0, <2>2, <3>7 DEF Give, AnswersInv, AnswerInv, TypeOK
    <3>8. CASE sent'[f] < Size[f]
      <4>1. cb'[f] = "stream"
        BY <1>0, <2>2, <3>3, <3>8 DEF TypeOK, Advance
      <4>2. AnswerInv(f)'
        BY <2>0, <3>1, <3>2, <3>3, <3>6, <3>8, <4>1 DEF AnswerInv
      <4> QED BY <3>7, <4>2 DEF AnswersInv
    <3>9. CASE ~(sent'[f] < Size[f])
      <4>1. cb'[f] = "release" /\ sent'[f] = Size[f]
        BY <1>0, <2>0, <2>2, <3>1, <3>3, <3>9 DEF TypeOK, Advance
      <4>2. denied[f] = {}
        BY <2>0 DEF IInv, FetchInv
      <4>3. AnswerInv(f)'
        BY <3>4, <3>5, <3>6, <4>1, <4>2 DEF AnswerInv, Whole
      <4> QED BY <3>7, <4>3 DEF AnswersInv
    <3> QED BY <3>8, <3>9
  <2>3. CASE Fail(f)
    BY <2>0, <2>3, FailAnswers
  <2> QED BY <1>5, <2>1, <2>2, <2>3 DEF Stream
<1>6. ASSUME NEW f \in Files, ReadError(f) PROVE AnswersInv'
  BY <1>6, FailAnswers DEF ReadError
<1>7. ASSUME NEW f \in Files, Release(f) PROVE AnswersInv'
  BY <1>0, <1>7 DEF Release, AnswersInv, AnswerInv, TypeOK
<1>8. CASE Crash
  BY <1>8 DEF Crash, Each, AnswersInv, AnswerInv
<1>9. CASE UNCHANGED vars
  BY <1>1, <1>9 DEF vars
<1> QED
  BY <1>1, <1>2, <1>3, <1>4, <1>5, <1>6, <1>7, <1>8, <1>9
     DEF Next, Callback, Teardown, Mount, Register, Connect, UndoRegister, Disconnect, Drain,
         Unregister, Remove, Drop, StartList, List, UserWrites

\* A callback that has returned has answered every byte it was asked for: for any
\* sizes and any chunk that is a multiple of the alignment, whatever fails but the
\* open, which stream_fetch leaves unanswered.
THEOREM FetchesAnswered ==
    ASSUME "open" \notin Faults, ReadsAligned
    PROVE  Spec => []FetchAnswered
<1>1. Init => AnswersInv
  BY DEF Init, Each, AnswersInv, AnswerInv
<1>2. IInv /\ AnswersInv /\ [Next]_vars => AnswersInv'
  BY AnswersNext
<1>3. AnswersInv => FetchAnswered
  BY DEF AnswersInv, AnswerInv, FetchAnswered
<1> QED BY Inductive, <1>1, <1>2, <1>3, PTL DEF Spec

------------------------------------------------------------------------------
(* The user's files *)

\* A file of the user's that came outside any mount keeps every later mount from
\* getting past its check.
OutsideInv ==
    /\ wrote # "none" => "user" \in disk
    /\ wrote = "outside" => pc \in {"idle", "failed", "ended", "undo_register", "drop"}

LEMMA OutsideNext == IInv /\ OutsideInv /\ [Next]_vars => OutsideInv'
<1> SUFFICES ASSUME IInv, OutsideInv, [Next]_vars PROVE OutsideInv'
  OBVIOUS
<1> USE DEF life, store, listing, fetch
<1>1. CASE Mount
  <2>1. ASSUME disk # {} PROVE pc' = "failed"
    BY <1>1, <2>1 DEF Mount, PreflightCheck, Check, CfApiCaps, AtMountpoint
  <2> QED BY <1>1, <2>1 DEF Mount, OutsideInv
<1>2. CASE Register \/ Connect \/ UndoRegister \/ Teardown
  BY <1>2 DEF Register, Connect, UndoRegister, Teardown, Disconnect, Drain, Unregister, Remove,
              Drop, OutsideInv
<1>3. CASE TransferPlaceholders
  BY <1>3 DEF TransferPlaceholders, OutsideInv
<1>4. CASE StartList \/ List
           \/ \E f \in Files : StartFetch(f) \/ Open(f) \/ Stream(f) \/ ReadError(f) \/ Release(f)
  BY <1>4 DEF StartList, List, StartFetch, Open, Stream, ReadError, Release, OutsideInv
<1>5. CASE UserWrites
  BY <1>5 DEF UserWrites, Moment, OutsideInv
<1>6. CASE Crash
  BY <1>6 DEF Crash, OutsideInv
<1>7. CASE UNCHANGED vars
  BY <1>7 DEF vars, OutsideInv
<1> QED BY <1>1, <1>2, <1>3, <1>4, <1>5, <1>6, <1>7 DEF Next, Callback

\* remove_leftover_placeholders, which removes whatever the directory holds, never
\* meets a file that the user put there outside a mount, over any number of mounts,
\* failures and crashes: such a file keeps mount from getting past its check for an
\* empty directory.  A file that comes after that check has no such protection.
THEOREM FilesOutsideMountsSafe == Spec => FilesOutsideMountsSurvive
<1>1. Init => OutsideInv
  BY DEF Init, OutsideInv
<1>2. ASSUME OutsideInv, [Next]_vars, wrote = "outside" PROVE "user" \in disk'
  <2>1. "user" \in disk /\ pc # "remove"
    BY <1>2 DEF OutsideInv
  <2>2. CASE Teardown
    BY <2>1, <2>2 DEF Teardown, Disconnect, Drain, Unregister, Remove, Drop, store
  <2>3. CASE Callback
    BY <2>1, <2>3 DEF Callback, List, TransferPlaceholders, Open, Stream, ReadError, Release, store
  <2> QED
    BY <1>2, <2>1, <2>2, <2>3
       DEF Next, Mount, Register, Connect, UndoRegister, StartList, StartFetch, UserWrites, Crash,
           vars, store
<1>3. OutsideInv /\ [Next]_vars => [wrote = "outside" => "user" \in disk']_vars
  BY <1>2
<1> QED BY Inductive, OutsideNext, <1>1, <1>3, PTL DEF Spec, FilesOutsideMountsSurvive
==============================================================================
