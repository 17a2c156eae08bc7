--------------------------- MODULE UastEvalProofs ---------------------------
(***************************************************************************)
(* For any number of goroutines, any rows, any list of languages and any   *)
(* cache: a call returns the UAST of its own request, up to requests that  *)
(* are the same characters in a row.  The invariant follows the bytes of a *)
(* request from the hash to the key, to the entry of the cache and to the  *)
(* answer: while a goroutine is inside computeKey nobody else writes to    *)
(* the hash, its key is made of its own request until it returns, and an   *)
(* entry of the cache is the UAST of a request that has its key.           *)
(***************************************************************************)
EXTENDS UastEval, TLAPS

Inside == {"lang", "blob", "sum"}

Keyed == {"get", "client", "languages", "request", "load", "append", "search", "parse", "put"}

(* The variables that the argument is about are functions on goroutines. *)
Shape ==
  /\ pc \in [Goroutine -> Labels]
  /\ DOMAIN req = Goroutine /\ DOMAIN key = Goroutine /\ DOMAIN result = Goroutine

(* Only the holder of the lock is inside computeKey. *)
OneInside == \A g \in Goroutine : pc[g] \in Inside => mutex = g

(* The hash has what the goroutine inside has written so far. *)
HashOf(g) ==
  /\ pc[g] = "lang" => h = req[g].mode
  /\ pc[g] = "blob" => h = req[g].mode \o req[g].lang
  /\ pc[g] = "sum" => h = Bytes(req[g])

KeyOf(g) == pc[g] \in Keyed => key[g] = Bytes(req[g])

AnswerOf(g) ==
  pc[g] = "idle" /\ result[g].kind = "node" => Bytes(result[g].node) = Bytes(req[g])

CacheIsRight == \A e \in cache : Bytes(e.node) = e.key

IInv ==
  /\ Shape
  /\ OneInside
  /\ \A g \in Goroutine : HashOf(g)
  /\ \A g \in Goroutine : KeyOf(g)
  /\ \A g \in Goroutine : AnswerOf(g)
  /\ CacheIsRight

(* What a step of goroutine g leaves alone. *)
OthersStay(g) ==
  \A o \in Goroutine \ {g} :
    /\ pc'[o] = pc[o] /\ req'[o] = req[o] /\ key'[o] = key[o] /\ result'[o] = result[o]

(* A step of one goroutine keeps the invariant if it keeps it for that
   goroutine and does not touch the hash of another one (computeKey). *)
LEMMA OneGoroutineMoves ==
  ASSUME IInv, NEW g \in Goroutine, Shape', OthersStay(g),
         pc'[g] \in Inside => mutex' = g,
         \A o \in Goroutine \ {g} : pc[o] \in Inside => mutex' = mutex /\ h' = h,
         HashOf(g)', KeyOf(g)', AnswerOf(g)', CacheIsRight'
  PROVE  IInv'
<1>1. \A o \in Goroutine : pc'[o] \in Inside => mutex' = o
  BY DEF IInv, OneInside, OthersStay
<1>2. \A o \in Goroutine : HashOf(o)'
  <2> SUFFICES ASSUME NEW o \in Goroutine \ {g} PROVE HashOf(o)'
    OBVIOUS
  <2>1. HashOf(o)
    BY DEF IInv
  <2>2. pc'[o] = pc[o] /\ req'[o] = req[o]
    BY DEF OthersStay
  <2>3. pc[o] \in Inside => h' = h
    OBVIOUS
  <2> QED
    BY <2>1, <2>2, <2>3 DEF HashOf, Inside, Bytes
<1>3. \A o \in Goroutine : KeyOf(o)'
  BY DEF IInv, KeyOf, OthersStay, Bytes
<1>4. \A o \in Goroutine : AnswerOf(o)'
  BY DEF IInv, AnswerOf, OthersStay, Bytes
<1> QED
  BY <1>1, <1>2, <1>3, <1>4 DEF IInv, OneInside

(* A call that returns (Return): nothing but an answer has to be right. *)
LEMMA ReturnKeeps ==
  ASSUME IInv, NEW g \in Goroutine, NEW k, NEW why, NEW node,
         Return(g, k, why, node), UNCHANGED <<hashing>>,
         DOMAIN req' = Goroutine, \A o \in Goroutine \ {g} : req'[o] = req[o],
         k = "node" => Bytes(node) = Bytes(req'[g]), CacheIsRight'
  PROVE  IInv'
<1>1. Shape' /\ OthersStay(g)
  BY DEF IInv, Shape, OthersStay, Return, Goto, Labels
<1>2. pc'[g] = "idle" /\ result'[g] = [kind |-> k, why |-> why, node |-> node]
  BY DEF IInv, Shape, Return, Goto
<1>3. HashOf(g)' /\ KeyOf(g)'
  BY <1>2 DEF HashOf, KeyOf, Keyed
<1>4. result'[g].kind = k /\ result'[g].node = node
  BY <1>2
<1>5. AnswerOf(g)'
  BY <1>4 DEF AnswerOf, Bytes
<1>6. mutex' = mutex /\ h' = h
  BY DEF hashing
<1> QED
  BY <1>1, <1>2, <1>3, <1>5, <1>6, OneGoroutineMoves DEF Inside

(* Going on to another label with the same request and key. *)
LEMMA ContinueKeeps ==
  ASSUME IInv, NEW g \in Goroutine, NEW label \in Keyed,
         pc[g] \in Keyed, Goto(g, label), key' = key, UNCHANGED <<hashing, cache, req, result>>
  PROVE  IInv'
<1>1. Shape' /\ OthersStay(g)
  BY DEF IInv, Shape, OthersStay, Goto, Labels, Keyed
<1>2. pc'[g] = label /\ pc'[g] # "idle" /\ pc'[g] \notin Inside
  BY DEF IInv, Shape, Goto, Keyed, Inside
<1>3. HashOf(g)' /\ KeyOf(g)' /\ AnswerOf(g)'
  BY <1>2 DEF IInv, HashOf, KeyOf, AnswerOf, Inside, Bytes
<1>4. mutex' = mutex /\ h' = h /\ CacheIsRight'
  BY DEF hashing, IInv, CacheIsRight, Bytes
<1> QED
  BY <1>1, <1>2, <1>3, <1>4, OneGoroutineMoves

(* In the first state nobody evaluates and the cache is empty. *)
LEMMA InitialInvariant == Init => IInv
<1> SUFFICES ASSUME Init PROVE IInv
  OBVIOUS
<1>1. Shape
  BY DEF Init, Shape, Labels
<1>2. OneInside /\ CacheIsRight
  BY DEF Init, OneInside, CacheIsRight, Inside
<1>3. \A g \in Goroutine : HashOf(g) /\ KeyOf(g) /\ AnswerOf(g)
  BY DEF Init, HashOf, KeyOf, AnswerOf, Keyed, NoResult
<1> QED
  BY <1>1, <1>2, <1>3 DEF IInv

(* Eval, from its arguments to getUAST. *)
LEMMA EvalKeeps ==
  ASSUME IInv, NEW g \in Goroutine, NEW r \in Rows, Eval(g, r)
  PROVE  IInv'
<1> DEFINE q == [mode |-> Value(expr.mode, r), lang |-> Value(expr.lang, r),
                 blob |-> Value(expr.blob, r)]
<1>1. /\ req' = [req EXCEPT ![g] = q]
      /\ UNCHANGED hashing /\ CacheIsRight'
  BY DEF Eval, IInv, CacheIsRight, Bytes
<1>2. DOMAIN req' = Goroutine /\ \A o \in Goroutine \ {g} : req'[o] = req[o]
  BY <1>1 DEF IInv, Shape
<1>3. CASE \E why : ReturnError(g, why) \/ ReturnNull(g, why)
  <2>1. PICK why : ReturnError(g, why) \/ ReturnNull(g, why)
    BY <1>3
  <2>2. PICK k \in {"error", "null"} : Return(g, k, why, NoRequest)
    BY <2>1 DEF ReturnError, ReturnNull
  <2> QED
    BY <1>1, <1>2, <2>2, ReturnKeeps
<1>4. CASE Goto(g, "lock") /\ result' = [result EXCEPT ![g] = NoResult] /\ UNCHANGED locals
  <2>1. Shape' /\ OthersStay(g) /\ pc'[g] = "lock"
    BY <1>2, <1>4 DEF IInv, Shape, OthersStay, Goto, Labels, locals
  <2>2. HashOf(g)' /\ KeyOf(g)' /\ AnswerOf(g)'
    BY <2>1 DEF HashOf, KeyOf, AnswerOf, Keyed
  <2>3. mutex' = mutex /\ h' = h /\ pc'[g] \notin Inside
    BY <1>1, <2>1 DEF hashing, Inside
  <2> QED
    BY <1>1, <2>1, <2>2, <2>3, OneGoroutineMoves
<1> QED
  BY <1>3, <1>4 DEF Eval

(* computeKey. *)
LEMMA ComputeKeyKeeps ==
  ASSUME IInv, NEW g \in Goroutine, Lock(g) \/ WriteLang(g) \/ WriteBlob(g) \/ Sum(g)
  PROVE  IInv'
<1>0. CacheIsRight'
  BY DEF IInv, CacheIsRight, Bytes, Lock, WriteLang, WriteBlob, Sum
<1>1. CASE Lock(g)
  <2>1. Shape' /\ OthersStay(g) /\ pc'[g] = "lang" /\ req' = req
    BY <1>1 DEF Lock, IInv, Shape, OthersStay, Goto, Labels, locals
  <2>2. \A o \in Goroutine : pc[o] \notin Inside
    BY <1>1, NoneIsNoGoroutine DEF Lock, IInv, OneInside
  <2>3. HashOf(g)' /\ KeyOf(g)' /\ AnswerOf(g)' /\ mutex' = g
    BY <1>1, <2>1 DEF Lock, HashOf, KeyOf, AnswerOf, Keyed
  <2> QED
    BY <1>0, <2>1, <2>2, <2>3, OneGoroutineMoves
<1>2. CASE WriteLang(g)
  <2>1. Shape' /\ OthersStay(g) /\ pc'[g] = "blob" /\ req' = req
    BY <1>2 DEF WriteLang, IInv, Shape, OthersStay, Goto, Labels, locals
  <2>2. mutex = g /\ mutex' = g /\ \A o \in Goroutine \ {g} : pc[o] \notin Inside
    BY <1>2 DEF WriteLang, IInv, OneInside, Inside
  <2>3. HashOf(g)' /\ KeyOf(g)' /\ AnswerOf(g)'
    BY <1>2, <2>1 DEF WriteLang, IInv, HashOf, KeyOf, AnswerOf, Keyed
  <2> QED
    BY <1>0, <2>1, <2>2, <2>3, OneGoroutineMoves
<1>3. CASE WriteBlob(g)
  <2>1. Shape' /\ OthersStay(g) /\ pc'[g] = "sum" /\ req' = req
    BY <1>3 DEF WriteBlob, IInv, Shape, OthersStay, Goto, Labels, locals
  <2>2. mutex = g /\ mutex' = g /\ \A o \in Goroutine \ {g} : pc[o] \notin Inside
    BY <1>3 DEF WriteBlob, IInv, OneInside, Inside
  <2>3. HashOf(g)' /\ KeyOf(g)' /\ AnswerOf(g)'
    BY <1>3, <2>1 DEF WriteBlob, IInv, HashOf, KeyOf, AnswerOf, Keyed, Bytes
  <2> QED
    BY <1>0, <2>1, <2>2, <2>3, OneGoroutineMoves
<1>4. CASE Sum(g)
  <2>1. Shape' /\ OthersStay(g) /\ pc'[g] = "get" /\ req' = req /\ key'[g] = h
    BY <1>4 DEF Sum, IInv, Shape, OthersStay, Goto, Labels
  <2>2. \A o \in Goroutine \ {g} : pc[o] \notin Inside
    BY <1>4 DEF Sum, IInv, OneInside, Inside
  <2>3. HashOf(g)' /\ KeyOf(g)' /\ AnswerOf(g)' /\ pc'[g] \notin Inside
    BY <1>4, <2>1 DEF Sum, IInv, HashOf, KeyOf, AnswerOf, Inside, Bytes
  <2> QED
    BY <1>0, <2>1, <2>2, <2>3, OneGoroutineMoves
<1> QED
  BY <1>1, <1>2, <1>3, <1>4

(* A call that ends without a UAST leaves the cache as it is. *)
LEMMA NoNodeKeeps ==
  ASSUME IInv, NEW g \in Goroutine, NEW why, ReturnError(g, why) \/ ReturnNull(g, why),
         UNCHANGED <<hashing, cache, req>>
  PROVE  IInv'
<1>1. PICK k \in {"error", "null"} : Return(g, k, why, NoRequest)
  BY DEF ReturnError, ReturnNull
<1>2. CacheIsRight' /\ DOMAIN req' = Goroutine
  BY DEF IInv, Shape, CacheIsRight, Bytes
<1> QED
  BY <1>1, <1>2, ReturnKeeps

(* The cache: Get and Put. *)
LEMMA CacheKeeps ==
  ASSUME IInv, NEW g \in Goroutine, Get(g) \/ Put(g)
  PROVE  IInv'
<1>1. CASE Get(g)
  <2>0. UNCHANGED <<hashing, cache, req>> /\ CacheIsRight' /\ DOMAIN req' = Goroutine
    BY <1>1 DEF Get, IInv, Shape, CacheIsRight, Bytes
  <2>1. CASE \E e \in cache : e.key = key[g] /\ Return(g, "node", "cache", e.node)
    <3>1. PICK e \in cache : e.key = key[g] /\ Return(g, "node", "cache", e.node)
      BY <2>1
    <3>2. Bytes(e.node) = Bytes(req[g])
      BY <1>1, <3>1 DEF IInv, CacheIsRight, KeyOf, Keyed, Get
    <3>3. Bytes(e.node) = Bytes(req'[g])
      BY <2>0, <3>2 DEF Bytes
    <3> QED
      BY <2>0, <3>1, <3>3, ReturnKeeps
  <2>2. CASE ReturnNull(g, "xpath")
    BY <2>0, <2>2, NoNodeKeeps
  <2>3. CASE Continue(g, "client") /\ UNCHANGED locals
    <3>1. Goto(g, "client") /\ result' = result /\ key' = key
      BY <2>3 DEF Continue, locals
    <3>2. pc[g] \in Keyed /\ "client" \in Keyed
      BY <1>1 DEF Get, Keyed
    <3> QED
      BY <2>0, <3>1, <3>2, ContinueKeeps
  <2> QED
    BY <1>1, <2>1, <2>2, <2>3 DEF Get
<1>2. CASE Put(g)
  <2>1. key[g] = Bytes(req[g])
    BY <1>2 DEF Put, IInv, KeyOf, Keyed
  <2>2. cache' \subseteq cache \union {[key |-> key[g], node |-> req[g]]}
    BY <1>2 DEF Put, Store
  <2>3. CacheIsRight'
    <3> DEFINE entry == [key |-> key[g], node |-> req[g]]
    <3>1. Bytes(entry.node) = entry.key
      BY <2>1
    <3>2. \A e \in cache \union {entry} : Bytes(e.node) = e.key
      BY <3>1, Zenon DEF IInv, CacheIsRight
    <3> QED
      BY <2>2, <3>2, Zenon DEF CacheIsRight, Bytes
  <2>4. UNCHANGED <<hashing, req>> /\ DOMAIN req' = Goroutine
    BY <1>2 DEF Put, IInv, Shape
  <2>5. CASE Return(g, "node", "bblfsh", req[g])
    BY <2>3, <2>4, <2>5, ReturnKeeps DEF Bytes
  <2>6. CASE ReturnNull(g, "xpath")
    BY <2>3, <2>4, <2>6, ReturnKeeps DEF ReturnNull
  <2>7. CASE ReturnError(g, "failed")
    BY <2>3, <2>4, <2>7, ReturnKeeps DEF ReturnError
  <2> QED
    BY <1>2, <2>5, <2>6, <2>7 DEF Put
<1> QED
  BY <1>1, <1>2

(* getUASTFromBblfsh, whatever the client and its list of languages do. *)
LEMMA BblfshKeeps ==
  ASSUME IInv, NEW g \in Goroutine,
         \/ GetClient(g) \/ SupportedLanguages(g) \/ Request(g) \/ Load(g)
         \/ AppendLanguage(g) \/ Search(g) \/ Torn(g) \/ Parse(g)
  PROVE  IInv'
<1>1. UNCHANGED <<hashing, cache, req>> /\ pc[g] \in Keyed
  BY DEF GetClient, SupportedLanguages, Request, Load, AppendLanguage, Search, Torn, Parse, Keyed
<1>2. CASE \E why : ReturnError(g, why) \/ ReturnNull(g, why)
  BY <1>1, <1>2, NoNodeKeeps
<1>3. CASE \E label \in Keyed : Goto(g, label) /\ result' = result /\ key' = key
  BY <1>1, <1>3, ContinueKeeps
<1>4. GetClient(g) => \/ \E why : ReturnError(g, why) \/ ReturnNull(g, why)
                      \/ \E label \in Keyed : Goto(g, label) /\ result' = result /\ key' = key
  BY DEF GetClient, Continue, locals, Keyed
<1>5. SupportedLanguages(g) =>
        \E label \in Keyed : Goto(g, label) /\ result' = result /\ key' = key
  BY DEF SupportedLanguages, locals, Keyed
<1>6. Request(g) => \/ \E why : ReturnError(g, why) \/ ReturnNull(g, why)
                    \/ \E label \in Keyed : Goto(g, label) /\ result' = result /\ key' = key
  BY DEF Request, Continue, Keyed
<1>7. Load(g) => \E label \in Keyed : Goto(g, label) /\ result' = result /\ key' = key
  BY DEF Load, Keyed
<1>8. AppendLanguage(g) => \E label \in Keyed : Goto(g, label) /\ result' = result /\ key' = key
  BY DEF AppendLanguage, Keyed
<1>9. Search(g) => \/ \E why : ReturnError(g, why) \/ ReturnNull(g, why)
                   \/ \E label \in Keyed : Goto(g, label) /\ result' = result /\ key' = key
  BY DEF Search, Continue, locals, Keyed
<1>10. Torn(g) => \E why : ReturnError(g, why)
  BY DEF Torn
<1>11. Parse(g) => \/ \E why : ReturnError(g, why) \/ ReturnNull(g, why)
                   \/ \E label \in Keyed : Goto(g, label) /\ result' = result /\ key' = key
  BY DEF Parse, Continue, locals, Keyed
<1> QED
  BY <1>2, <1>3, <1>4, <1>5, <1>6, <1>7, <1>8, <1>9, <1>10, <1>11

(* Every step, or none, keeps the invariant. *)
LEMMA InductiveStep == IInv /\ [Next]_vars => IInv'
<1> SUFFICES ASSUME IInv, [Next]_vars PROVE IInv'
  OBVIOUS
<1>1. CASE Rewrite
  BY <1>1 DEF Rewrite, IInv, Shape, OneInside, HashOf, KeyOf, AnswerOf, CacheIsRight, Bytes,
              hashing, locals
<1>2. CASE \E g \in Goroutine : Go(g)
  BY <1>2, ComputeKeyKeeps, CacheKeeps, BblfshKeeps DEF Go
<1>3. CASE \E g \in Goroutine, r \in Rows : Eval(g, r)
  BY <1>3, EvalKeeps
<1>4. CASE UNCHANGED vars
  BY <1>4 DEF vars, IInv, Shape, OneInside, HashOf, KeyOf, AnswerOf, CacheIsRight, Bytes,
              hashing, locals
<1> QED
  BY <1>1, <1>2, <1>3, <1>4 DEF Next, Step

(* The strengthened invariant holds of every evaluation. *)
THEOREM Invariance == Spec => []IInv
<1> QED
  BY InitialInvariant, InductiveStep, PTL DEF Spec

(* A call of uast or uast_mode never returns the UAST of another request,
   whoever shares its hash and the cache (getUAST). *)
THEOREM OwnAnswers == Spec => []AnswersItsRequest
<1>1. IInv => AnswersItsRequest
  BY DEF IInv, AnswerOf, AnswersItsRequest
<1> QED
  BY Invariance, <1>1, PTL

-----------------------------------------------------------------------------
(* The list of supported languages.  As long as no goroutine has met another
   one that fills it, one goroutine at most appends to the list, which is a
   prefix of what the server lists and is searched only when it is whole. *)
Text == Seq(STRING)

(* supportedLanguages is a slice of an array that has room for it ... *)
SliceOK ==
  /\ arrays \in Seq(Seq(Text))
  /\ langs \in [arr : 0..Len(arrays), len : 0..Len(Manifests)]
  /\ langs.arr = 0 => langs.len = 0
  /\ langs.arr # 0 => langs.len <= Len(arrays[langs.arr])

(* ... and holds the first languages of the server. *)
ListIsPrefix == SliceOK /\ \A i \in 1..langs.len : Array(langs)[i] = Manifests[i]

Alone ==
  \A f, g \in Goroutine :
    f # g /\ pc[f] \in Filling => pc[g] \notin Filling \union {"languages", "search"}

(* What a goroutine knows of the list where it is. *)
Knows(g) ==
  /\ pc[g] = "request" => langs.len = 0
  /\ pc[g] \in {"load", "append"} => pos[g] = langs.len + 1
  /\ pc[g] = "append" => base[g] = langs /\ pos[g] <= Len(Manifests)
  /\ pc[g] = "search" => langs.len = Len(Manifests)
  /\ pc[g] = "idle" /\ result[g].why = "language" => req[g].lang \notin Supported

Frames == DOMAIN pos = Goroutine /\ DOMAIN base = Goroutine

Orderly ==
  /\ Frames
  /\ ListIsPrefix
  /\ Alone
  /\ \A g \in Goroutine : Knows(g)
  /\ (\A g \in Goroutine : pc[g] \notin Filling) => langs.len \in {0, Len(Manifests)}

OrderlyUntilCrossed == crossed \in BOOLEAN /\ (crossed # TRUE => Orderly)

(* append puts the next language behind the prefix, in the same array or in
   a copy of it. *)
LEMMA AppendKeepsPrefix ==
  ASSUME ListIsPrefix, NEW g \in Goroutine, AppendLanguage(g), base[g] = langs,
         pos[g] = langs.len + 1, pos[g] <= Len(Manifests)
  PROVE  ListIsPrefix' /\ langs'.len = langs.len + 1
<1> DEFINE lang == Manifests[langs.len + 1]
           n == IF langs.len = 0 THEN 1 ELSE 2 * langs.len
           new == [i \in 1..n |-> CASE i <= langs.len -> Array(langs)[i]
                                    [] i = langs.len + 1 -> lang
                                    [] OTHER -> <<>>]
<1>0. /\ Len(Manifests) \in Nat /\ \A i \in 1..Len(Manifests) : Manifests[i] \in Text
      /\ langs.arr \in 0..Len(arrays) /\ langs.len \in 0..(Len(Manifests) - 1)
      /\ arrays \in Seq(Seq(Text)) /\ Len(arrays) \in Nat
      /\ langs.arr = 0 => langs.len = 0
      /\ langs.arr # 0 => langs.len <= Len(arrays[langs.arr])
  BY ManifestsAreStrings DEF ListIsPrefix, SliceOK, Text
<1>1. lang \in Text /\ <<>> \in Text
  BY <1>0 DEF Text
<1>2. \A i \in 1..langs.len : Array(langs)[i] \in Text /\ Array(langs)[i] = Manifests[i]
  BY <1>0 DEF ListIsPrefix
<1>3. CASE HasRoom(langs)
  <2>1. langs.arr \in 1..Len(arrays) /\ langs.len < Len(arrays[langs.arr])
    BY <1>0, <1>3 DEF HasRoom, Array
  <2>2. /\ arrays' = [arrays EXCEPT ![langs.arr][langs.len + 1] = lang]
        /\ langs' = [langs EXCEPT !.len = @ + 1]
    BY <1>3 DEF AppendLanguage
  <2> DEFINE old == arrays[langs.arr]
             upd == [old EXCEPT ![langs.len + 1] = lang]
  <2>3. old \in Seq(Text) /\ Len(old) \in Nat
    BY <1>0, <2>1
  <2>4. /\ upd \in Seq(Text) /\ Len(upd) = Len(old)
        /\ \A i \in 1..langs.len : upd[i] = old[i]
        /\ upd[langs.len + 1] = lang
    BY <1>0, <1>1, <2>1, <2>3
  <2> HIDE DEF upd
  <2>5. arrays' = [arrays EXCEPT ![langs.arr] = upd]
    BY <2>2 DEF upd
  <2>6. arrays' \in Seq(Seq(Text)) /\ Len(arrays') = Len(arrays) /\ arrays'[langs.arr] = upd
    BY <1>0, <2>1, <2>4, <2>5
  <2>7. langs'.arr = langs.arr /\ langs'.len = langs.len + 1
        /\ langs' \in [arr : 0..Len(arrays'), len : 0..Len(Manifests)]
    <3>1. langs \in [arr : 0..Len(arrays), len : 0..Len(Manifests)]
      BY DEF ListIsPrefix, SliceOK
    <3>2. langs' = [arr |-> langs.arr, len |-> langs.len + 1]
      BY <2>2, <3>1
    <3> QED
      BY <1>0, <2>6, <3>2
  <2>8. SliceOK'
    BY <1>0, <2>1, <2>3, <2>4, <2>6, <2>7 DEF SliceOK
  <2>9. \A i \in 1..langs'.len : Array(langs)'[i] = Manifests[i]
    <3> SUFFICES ASSUME NEW i \in 1..langs'.len PROVE upd[i] = Manifests[i]
      BY <2>1, <2>6, <2>7 DEF Array
    <3>1. CASE i = langs.len + 1
      BY <2>4, <3>1
    <3>2. CASE i \in 1..langs.len
      BY <1>0, <1>2, <2>1, <2>4, <3>2 DEF Array
    <3> QED
      BY <1>0, <2>7, <3>1, <3>2
  <2> QED
    BY <2>7, <2>8, <2>9 DEF ListIsPrefix
<1>4. CASE ~HasRoom(langs)
  <2>1. /\ arrays' = Append(arrays, new)
        /\ langs' = [arr |-> Len(arrays'), len |-> langs.len + 1]
    BY <1>4 DEF AppendLanguage
  <2>2. n \in Nat /\ langs.len + 1 <= n
    BY <1>0
  <2>3. new \in [1..n -> Text]
    BY <1>0, <1>1, <1>2
  <2>4. new \in Seq(Text) /\ Len(new) = n
    BY <2>2, <2>3
  <2>5. \A i \in 1..(langs.len + 1) : new[i] = Manifests[i]
    BY <1>0, <1>2, <2>2
  <2> HIDE DEF new, n
  <2>6. arrays' \in Seq(Seq(Text)) /\ Len(arrays') = Len(arrays) + 1
        /\ arrays'[Len(arrays) + 1] = new
    BY <1>0, <2>1, <2>4
  <2>7. langs'.arr = Len(arrays) + 1 /\ langs'.len = langs.len + 1
        /\ langs' \in [arr : 0..Len(arrays'), len : 0..Len(Manifests)]
    BY <1>0, <2>1, <2>6
  <2>8. SliceOK'
    BY <1>0, <2>2, <2>4, <2>6, <2>7 DEF SliceOK
  <2>9. \A i \in 1..langs'.len : Array(langs)'[i] = Manifests[i]
    BY <1>0, <2>5, <2>6, <2>7 DEF Array
  <2> QED
    BY <2>7, <2>8, <2>9 DEF ListIsPrefix
<1> QED
  BY <1>3, <1>4
(* A step that leaves the list alone keeps the order if the goroutine that
   takes it does, and does not stop in the middle of filling the list. *)
LEMMA ListUntouched ==
  ASSUME Orderly, Alone', Shape, Shape', NEW g \in Goroutine, Frames', UNCHANGED list,
         \A o \in Goroutine \ {g} :
           /\ pc'[o] = pc[o] /\ req'[o] = req[o] /\ result'[o] = result[o]
           /\ pos'[o] = pos[o] /\ base'[o] = base[o],
         Knows(g)',
         \/ pc[g] \in {"load", "append"} => pc'[g] \in Filling
         \/ pc'[g] = "search"
  PROVE  Orderly'
<1>1. langs' = langs /\ arrays' = arrays
  BY DEF list
<1>2. ListIsPrefix'
  BY <1>1 DEF Orderly, ListIsPrefix, SliceOK, Array
<1>3. \A o \in Goroutine : Knows(o)'
  BY <1>1 DEF Orderly, Knows
<1>4. ASSUME \A o \in Goroutine : pc'[o] \notin Filling
      PROVE  langs.len \in {0, Len(Manifests)}
  <2>1. CASE pc[g] \notin Filling
    BY <1>4, <2>1 DEF Orderly
  <2>2. CASE pc[g] = "request"
    BY <2>2 DEF Orderly, Knows
  <2>3. CASE pc'[g] = "search"
    BY <1>1, <2>3 DEF Knows
  <2> QED
    BY <1>4, <2>1, <2>2, <2>3 DEF Filling
<1> QED
  BY <1>1, <1>2, <1>3, <1>4 DEF Orderly

(* A call that returns says that a language is not supported only when it is not. *)
LEMMA ReturnIsOrderly ==
  ASSUME Orderly, Alone', Shape, Shape', NEW g \in Goroutine, NEW k, NEW why, NEW node,
         Return(g, k, why, node), pc[g] \notin {"load", "append"}, UNCHANGED list,
         \A o \in Goroutine \ {g} : req'[o] = req[o],
         why = "language" => req'[g].lang \notin Supported
  PROVE  Orderly'
<1>1. /\ pc'[g] = "idle" /\ result'[g].why = why /\ Frames'
      /\ \A o \in Goroutine \ {g} :
           /\ pc'[o] = pc[o] /\ result'[o] = result[o]
           /\ pos'[o] = pos[o] /\ base'[o] = base[o]
  BY DEF Return, Goto, Shape, Orderly, Frames
<1>2. Knows(g)'
  BY <1>1 DEF Knows, Supported
<1> QED
  BY <1>1, <1>2, ListUntouched

(* A goroutine that goes on without touching the list. *)
LEMMA GotoIsOrderly ==
  ASSUME Orderly, Alone', Shape, Shape', NEW g \in Goroutine, NEW label, Goto(g, label),
         label \notin {"idle", "request", "load", "append"},
         pc[g] \notin {"load", "append"} \/ label = "search",
         label = "search" => langs.len = Len(Manifests),
         UNCHANGED <<list, req, result, pos, base>>
  PROVE  Orderly'
<1>1. /\ pc'[g] = label /\ Frames' /\ langs' = langs
      /\ \A o \in Goroutine \ {g} : pc'[o] = pc[o]
  BY DEF Goto, Shape, Orderly, Frames, list
<1>2. Knows(g)'
  BY <1>1 DEF Knows
<1> QED
  BY <1>1, <1>2, ListUntouched

(* SupportedLanguages and the loop that fills the list. *)
LEMMA FillingIsOrderly ==
  ASSUME Orderly, Alone', Shape, Shape', NEW g \in Goroutine,
         SupportedLanguages(g) \/ Request(g) \/ Load(g) \/ AppendLanguage(g)
  PROVE  Orderly'
<1>0. /\ Frames /\ Knows(g) /\ Alone /\ langs.len \in 0..Len(Manifests)
      /\ Len(Manifests) \in Nat
  BY ManifestsAreStrings DEF Orderly, ListIsPrefix, SliceOK
<1>1. CASE SupportedLanguages(g)
  <2>1. UNCHANGED <<list, req, result, pos, base>>
    BY <1>1 DEF SupportedLanguages, locals
  <2>2. CASE langs.len = 0
    <3>1. /\ pc'[g] = "request" /\ Frames' /\ langs' = langs
          /\ \A o \in Goroutine \ {g} : pc'[o] = pc[o]
      BY <1>0, <1>1, <2>1, <2>2 DEF SupportedLanguages, Goto, Shape, Frames, list
    <3>2. Knows(g)'
      BY <2>2, <3>1 DEF Knows
    <3> QED
      BY <2>1, <3>1, <3>2, ListUntouched DEF Filling
  <2>3. CASE langs.len # 0
    <3>1. \A o \in Goroutine : pc[o] \notin Filling
      BY <1>0, <1>1 DEF Alone, SupportedLanguages, Filling
    <3>2. langs.len = Len(Manifests)
      BY <2>3, <3>1 DEF Orderly
    <3>3. Goto(g, "search") /\ pc[g] = "languages"
      BY <1>1, <2>3 DEF SupportedLanguages
    <3> QED
      BY <2>1, <3>2, <3>3, GotoIsOrderly
  <2> QED
    BY <2>2, <2>3
<1>2. CASE Request(g)
  <2>1. pc[g] = "request" /\ langs.len = 0 /\ UNCHANGED <<list, req>>
    BY <1>0, <1>2 DEF Request, Knows
  <2>2. CASE ReturnError(g, "request")
    BY <2>1, <2>2, ReturnIsOrderly DEF ReturnError
  <2>3. CASE Continue(g, "load") /\ pos' = [pos EXCEPT ![g] = 1] /\ UNCHANGED <<key, base>>
    <3>1. /\ pc'[g] = "load" /\ pos'[g] = 1 /\ Frames' /\ langs' = langs
          /\ \A o \in Goroutine \ {g} :
               pc'[o] = pc[o] /\ pos'[o] = pos[o] /\ base'[o] = base[o] /\ result'[o] = result[o]
      BY <1>0, <2>1, <2>3 DEF Continue, Goto, Shape, Frames, list
    <3>2. Knows(g)'
      BY <2>1, <3>1 DEF Knows
    <3> QED
      BY <2>1, <3>1, <3>2, ListUntouched DEF Filling
  <2> QED
    BY <1>2, <2>2, <2>3 DEF Request
<1>3. CASE Load(g)
  <2>1. pc[g] = "load" /\ pos[g] = langs.len + 1 /\ UNCHANGED <<list, req, pos, result>>
    BY <1>0, <1>3 DEF Load, Knows
  <2>2. CASE pos[g] > Len(Manifests)
    <3>1. Goto(g, "search") /\ UNCHANGED base /\ langs.len = Len(Manifests)
      BY <1>0, <1>3, <2>1, <2>2 DEF Load
    <3> QED
      BY <2>1, <3>1, GotoIsOrderly
  <2>3. CASE ~(pos[g] > Len(Manifests))
    <3>1. /\ pc'[g] = "append" /\ base'[g] = langs /\ pos' = pos /\ Frames' /\ langs' = langs
          /\ \A o \in Goroutine \ {g} : pc'[o] = pc[o] /\ base'[o] = base[o]
      BY <1>0, <1>3, <2>1, <2>3 DEF Load, Goto, Shape, Frames, list
    <3>2. Knows(g)'
      BY <1>0, <2>1, <2>3, <3>1 DEF Knows
    <3> QED
      BY <2>1, <3>1, <3>2, ListUntouched DEF Filling
  <2> QED
    BY <2>2, <2>3
<1>4. CASE AppendLanguage(g)
  <2>1. pc[g] = "append" /\ base[g] = langs /\ pos[g] = langs.len + 1
        /\ pos[g] <= Len(Manifests) /\ UNCHANGED <<req, base, result>>
    BY <1>0, <1>4 DEF AppendLanguage, Knows
  <2>2. ListIsPrefix' /\ langs'.len = langs.len + 1
    BY <1>4, <2>1, AppendKeepsPrefix DEF Orderly
  <2>3. /\ pc'[g] = "load" /\ pos'[g] = pos[g] + 1 /\ Frames'
        /\ \A o \in Goroutine \ {g} : pc'[o] = pc[o] /\ pos'[o] = pos[o]
    BY <1>0, <1>4, <2>1 DEF AppendLanguage, Goto, Shape, Frames
  <2>4. \A o \in Goroutine \ {g} : pc'[o] \notin Filling \union {"search"}
    BY <2>3 DEF Alone, Filling
  <2>5. ASSUME NEW o \in Goroutine PROVE Knows(o)'
    <3>1. CASE o = g
      BY <1>0, <2>1, <2>2, <2>3, <3>1 DEF Knows
    <3>2. CASE o # g
      <4>1. Knows(o)
        BY DEF Orderly
      <4> QED
        BY <2>1, <2>3, <2>4, <3>2, <4>1 DEF Knows, Filling
    <3> QED
      BY <3>1, <3>2
  <2>6. pc'[g] \in Filling
    BY <2>3 DEF Filling
  <2> QED
    BY <2>2, <2>3, <2>5, <2>6 DEF Orderly
<1> QED
  BY <1>1, <1>2, <1>3, <1>4

(* All other steps of a goroutine: what IsLanguageSupported refuses is not in
   the list, which is whole, and no header is torn. *)
LEMMA OthersAreOrderly ==
  ASSUME Orderly, Alone', Shape, Shape', NEW g \in Goroutine,
         \/ Lock(g) \/ WriteLang(g) \/ WriteBlob(g) \/ Sum(g) \/ Get(g) \/ GetClient(g)
         \/ Search(g) \/ Torn(g) \/ Parse(g) \/ Put(g)
  PROVE  Orderly'
<1>0. Knows(g) /\ Alone
  BY DEF Orderly
<1>1. CASE Lock(g) \/ WriteLang(g) \/ WriteBlob(g) \/ Sum(g)
  <2>1. UNCHANGED <<list, req, result, pos, base>> /\ pc[g] \notin {"load", "append"}
    BY <1>1 DEF Lock, WriteLang, WriteBlob, Sum, locals
  <2>2. PICK label \in {"lang", "blob", "sum", "get"} : Goto(g, label)
    BY <1>1 DEF Lock, WriteLang, WriteBlob, Sum
  <2> QED
    BY <2>1, <2>2, GotoIsOrderly
<1>2. CASE Search(g)
  <2>1. pc[g] = "search" /\ langs.len = Len(Manifests) /\ UNCHANGED <<list, req>>
    BY <1>0, <1>2 DEF Search, Knows
  <2>2. CASE Continue(g, "parse") /\ UNCHANGED locals
    <3>1. Goto(g, "parse") /\ UNCHANGED <<result, pos, base>>
      BY <2>2 DEF Continue, locals
    <3> QED
      BY <2>1, <3>1, GotoIsOrderly
  <2>3. CASE /\ \A i \in 1..langs.len : Array(langs)[i] # req[g].lang
             /\ ReturnNull(g, "language")
    <3>1. DOMAIN Manifests = 1..Len(Manifests)
      BY ManifestsAreStrings
    <3>2. req[g].lang \notin Supported
      BY <2>1, <2>3, <3>1 DEF Supported, Orderly, ListIsPrefix
    <3>3. req'[g].lang \notin Supported
      BY <2>1, <3>2 DEF Supported
    <3> QED
      BY <2>1, <2>3, <3>3, ReturnIsOrderly DEF ReturnNull
  <2> QED
    BY <1>2, <2>2, <2>3 DEF Search
<1>3. CASE Torn(g)
  BY <1>0, <1>3 DEF Torn, Alone, Filling
<1>4. CASE Get(g) \/ GetClient(g) \/ Parse(g) \/ Put(g)
  <2>1. UNCHANGED <<list, req>> /\ pc[g] \notin {"load", "append"}
    BY <1>4 DEF Get, GetClient, Parse, Put
  <2>2. \/ \E k, node : \E why \in {"cache", "xpath", "client", "parse", "bblfsh", "failed"} :
             Return(g, k, why, node)
        \/ \E label \in {"client", "parse", "languages", "put"} :
             Goto(g, label) /\ UNCHANGED <<result, pos, base>>
    <3>1. Get(g) => <2>2!1 \/ <2>2!2
      BY DEF Get, ReturnNull, Continue, locals
    <3>2. GetClient(g) => <2>2!1 \/ <2>2!2
      BY DEF GetClient, ReturnError, Continue, locals
    <3>3. Parse(g) => <2>2!1 \/ <2>2!2
      BY DEF Parse, ReturnNull, Continue, locals
    <3>4. Put(g) => <2>2!1 \/ <2>2!2
      BY DEF Put, ReturnNull, ReturnError
    <3> QED
      BY <1>4, <3>1, <3>2, <3>3, <3>4
  <2>3. CASE \E k, node : \E why \in {"cache", "xpath", "client", "parse", "bblfsh", "failed"} :
               Return(g, k, why, node)
    <3>1. PICK k, node : \E why \in {"cache", "xpath", "client", "parse", "bblfsh", "failed"} :
                           Return(g, k, why, node)
      BY <2>3
    <3>2. PICK why \in {"cache", "xpath", "client", "parse", "bblfsh", "failed"} : Return(g, k, why, node)
      BY <3>1
    <3> QED
      BY <2>1, <3>2, ReturnIsOrderly
  <2>4. CASE \E label \in {"client", "parse", "languages", "put"} :
               Goto(g, label) /\ UNCHANGED <<result, pos, base>>
    BY <2>1, <2>4, GotoIsOrderly
  <2> QED
    BY <2>2, <2>3, <2>4
<1> QED
  BY <1>1, <1>2, <1>3, <1>4

(* Eval up to getUAST. *)
LEMMA EvalIsOrderly ==
  ASSUME Orderly, Alone', Shape, Shape', NEW g \in Goroutine, NEW r \in Rows, Eval(g, r)
  PROVE  Orderly'
<1>1. /\ pc[g] = "idle" /\ UNCHANGED list
      /\ \A o \in Goroutine \ {g} : req'[o] = req[o]
  BY DEF Eval, Shape
<1>2. CASE \E k : \E why \in {"mode", "empty", "big"} : Return(g, k, why, NoRequest)
  <2>1. PICK k : \E why \in {"mode", "empty", "big"} : Return(g, k, why, NoRequest)
    BY <1>2
  <2> QED
    BY <1>1, <2>1, ReturnIsOrderly
<1>3. CASE Goto(g, "lock") /\ result' = [result EXCEPT ![g] = NoResult] /\ UNCHANGED locals
  <2>1. /\ pc'[g] = "lock" /\ Frames' /\ pos' = pos /\ base' = base
        /\ \A o \in Goroutine \ {g} : pc'[o] = pc[o] /\ result'[o] = result[o]
    BY <1>3 DEF Goto, Shape, Orderly, Frames, locals
  <2>2. Knows(g)'
    BY <2>1 DEF Knows
  <2> QED
    BY <1>1, <2>1, <2>2, ListUntouched
<1> QED
  BY <1>2, <1>3 DEF Eval, ReturnError, ReturnNull

(* Every step keeps the order until goroutines meet. *)
LEMMA OrderStep ==
  IInv /\ IInv' /\ OrderlyUntilCrossed /\ [Next]_vars => OrderlyUntilCrossed'
<1> SUFFICES ASSUME IInv, IInv', OrderlyUntilCrossed, [Next]_vars
             PROVE  OrderlyUntilCrossed'
  OBVIOUS
<1>0. Shape /\ Shape'
  BY DEF IInv
<1>1. CASE UNCHANGED vars
  BY <1>1 DEF OrderlyUntilCrossed, vars, Orderly, Frames, ListIsPrefix, SliceOK, Array, Alone,
              Knows, Supported, locals, list
<1>2. CASE Next
  <2>1. /\ crossed' \in BOOLEAN
        /\ crossed' # TRUE => crossed # TRUE /\ Alone'
    BY <1>2 DEF Next, Alone, OrderlyUntilCrossed
  <2> SUFFICES ASSUME crossed' # TRUE PROVE Orderly'
    BY <2>1 DEF OrderlyUntilCrossed
  <2>2. Orderly /\ Alone'
    BY <2>1 DEF OrderlyUntilCrossed
  <2>3. CASE Rewrite
    <3>1. UNCHANGED <<list, pc, req, locals, result>>
      BY <2>3 DEF Rewrite
    <3> QED
      BY <2>2, <3>1 DEF Orderly, Frames, ListIsPrefix, SliceOK, Array, Knows, Supported,
                        locals, list
  <2>4. CASE \E g \in Goroutine : Go(g)
    BY <1>0, <2>2, <2>4, FillingIsOrderly, OthersAreOrderly DEF Go
  <2>5. CASE \E g \in Goroutine, r \in Rows : Eval(g, r)
    BY <1>0, <2>2, <2>5, EvalIsOrderly
  <2> QED
    BY <1>2, <2>3, <2>4, <2>5 DEF Next, Step
<1> QED
  BY <1>1, <1>2

(* IsLanguageSupported refuses a language of the server only when goroutines
   met while the list was filled, for any number of goroutines and languages. *)
THEOREM NoRefusalWithoutCrossing == Spec => []RefusedOnlyAfterCrossing
<1>1. Init => OrderlyUntilCrossed
  <2> SUFFICES ASSUME Init PROVE OrderlyUntilCrossed
    OBVIOUS
  <2>1. Frames /\ Alone /\ langs.len = 0
    BY DEF Init, Frames, Alone, Filling, NilSlice
  <2>2. ListIsPrefix
    BY ManifestsAreStrings DEF Init, ListIsPrefix, SliceOK, NilSlice
  <2>3. \A g \in Goroutine : Knows(g)
    BY DEF Init, Knows, NoResult
  <2> QED
    BY <2>1, <2>2, <2>3 DEF Init, OrderlyUntilCrossed, Orderly
<1>2. OrderlyUntilCrossed => RefusedOnlyAfterCrossing
  <2> SUFFICES ASSUME OrderlyUntilCrossed, NEW g \in Goroutine, Refused(g), crossed # TRUE
               PROVE  FALSE
    BY DEF RefusedOnlyAfterCrossing, OrderlyUntilCrossed
  <2> QED
    BY DEF OrderlyUntilCrossed, Orderly, Knows, Refused
<1> QED
  BY <1>1, <1>2, OrderStep, Invariance, PTL DEF Spec
=============================================================================
