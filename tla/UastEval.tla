------------------------------ MODULE UastEval ------------------------------
(***************************************************************************)
(* internal/function/uast.go: the evaluation of uast and uast_mode.  The   *)
(* goroutines that read the partitions of a query evaluate one expression, *)
(* so they share its hash (under uastFunc.m), the cache of UASTs and the   *)
(* client of the session with its list of supported languages (session.go, *)
(* no lock).  Before that, the analyzer rewrites the expression any number *)
(* of times, each time through Children and WithChildren.                  *)
(*                                                                         *)
(* Strings and contents are sequences of characters.  The checksum of the  *)
(* cache's key is taken to be free of collisions: it stands for the bytes  *)
(* that were written to the hash.  A Go slice is a header with an array    *)
(* and a length; arrays have a capacity and may be shared by headers.      *)
(* Headers are read and stored as a whole: what a torn header does to the  *)
(* goroutine that reads it is a panic, which Eval recovers as an error.    *)
(***************************************************************************)
EXTENDS Integers, Sequences, FiniteSets

CONSTANTS
  Goroutine,    \* the goroutines of a query
  None,         \* no goroutine
  Rows,         \* what rows give as arguments: [lang, blob]
  Mode,         \* the mode that is written, or "semantic" in uast
  Manifests,    \* the languages and aliases bblfsh lists, in order
  MaxBlobSize,  \* uastMaxBlobSize; a negative one is no limit
  CacheSize,    \* uastCacheSize
  MaxCalls      \* calls of Eval, at most

ASSUME NoneIsNoGoroutine == None \notin Goroutine
ASSUME BoundsAreNumbers ==
  MaxBlobSize \in Int /\ CacheSize \in Nat \ {0} /\ MaxCalls \in Nat
ASSUME ManifestsAreStrings == Manifests \in Seq(Seq(STRING))

VARIABLES
  kind,      \* the function: "uast" or "uast_mode"
  expr,      \* uastFunc: which written argument is its Mode, Blob and Lang
  mutex,     \* who holds uastFunc.m, or None
  h,         \* what was written to the hash since Reset
  cache,     \* the entries of uastCache: [key, node]
  langs,     \* the header of supportedLanguages: [arr, len]
  arrays,    \* the arrays that appending has made
  pc,        \* per goroutine: where in Eval it is
  req,       \* per goroutine: the request: [mode, lang, blob]
  key,       \* per goroutine: the key of the request
  pos,       \* per goroutine: the next language to append
  base,      \* per goroutine: the header it appends to
  result,    \* per goroutine: what the last call returned: [kind, why, node]
  calls,     \* calls of Eval so far
  crossed    \* a list was filled while another goroutine used it

plan == <<kind, expr>>

locals == <<key, pos, base>>

hashing == <<mutex, h>>

list == <<langs, arrays>>

vars == <<plan, hashing, cache, list, pc, req, locals, result, calls, crossed>>

-----------------------------------------------------------------------------
(* The expression as NewUAST and NewUASTMode make it from the query. *)
Written == [mode |-> "mode", blob |-> "blob", lang |-> "lang"]

Children ==
  IF kind = "uast" THEN <<expr.blob, expr.lang>> ELSE <<expr.blob, expr.mode, expr.lang>>

NewUAST(c) == [mode |-> "mode", blob |-> c[1], lang |-> c[2]]

NewUASTMode(c) == [mode |-> c[1], blob |-> c[2], lang |-> c[3]]

WithChildren(c) == IF kind = "uast" THEN NewUAST(c) ELSE NewUASTMode(c)

(* The value of a written argument for a row. *)
Value(arg, r) == CASE arg = "mode" -> Mode [] arg = "blob" -> r.blob [] arg = "lang" -> r.lang

NilSlice == [arr |-> 0, len |-> 0]

NoRequest == [mode |-> <<>>, lang |-> <<>>, blob |-> <<>>]

NoResult == [kind |-> "none", why |-> "none", node |-> NoRequest]

Init ==
  /\ kind \in {"uast", "uast_mode"}
  /\ expr = Written
  /\ mutex = None
  /\ h = <<>>
  /\ cache = {}
  /\ langs = NilSlice
  /\ arrays = <<>>
  /\ pc = [g \in Goroutine |-> "idle"]
  /\ req = [g \in Goroutine |-> NoRequest]
  /\ key = [g \in Goroutine |-> <<>>]
  /\ pos = [g \in Goroutine |-> 1]
  /\ base = [g \in Goroutine |-> NilSlice]
  /\ result = [g \in Goroutine |-> NoResult]
  /\ calls = 0
  /\ crossed = FALSE

(* The analyzer transforms the expression. *)
Rewrite ==
  /\ calls = 0
  /\ expr' = WithChildren(Children)
  /\ UNCHANGED <<kind, hashing, cache, list, pc, req, locals, result, calls>>

-----------------------------------------------------------------------------
(* The evaluation. *)

Goto(g, label) == pc' = [pc EXCEPT ![g] = label]

(* The goroutine goes on to the label in the same call. *)
Continue(g, label) == Goto(g, label) /\ UNCHANGED result

(* The call returns; its variables are gone. *)
Return(g, k, why, node) ==
  /\ Goto(g, "idle")
  /\ key' = [key EXCEPT ![g] = <<>>]
  /\ pos' = [pos EXCEPT ![g] = 1]
  /\ base' = [base EXCEPT ![g] = NilSlice]
  /\ result' = [result EXCEPT ![g] = [kind |-> k, why |-> why, node |-> node]]

ReturnNull(g, why) == Return(g, "null", why, NoRequest)

ReturnError(g, why) == Return(g, "error", why, NoRequest)

TooBig(blob) == MaxBlobSize >= 0 /\ Len(blob) > MaxBlobSize

(* uastFunc.Eval up to getUAST. *)
Eval(g, r) ==
  /\ pc[g] = "idle" /\ calls < MaxCalls
  /\ calls' = calls + 1
  /\ LET q == [mode |-> Value(expr.mode, r), lang |-> Value(expr.lang, r),
               blob |-> Value(expr.blob, r)]
     IN
     /\ req' = [req EXCEPT ![g] = q]
     /\ \/ q.mode # Mode /\ ReturnError(g, "mode")
        \/ q.mode = Mode /\ q.blob = <<>> /\ ReturnNull(g, "empty")
        \/ q.mode = Mode /\ TooBig(q.blob) /\ ReturnNull(g, "big")
        \/ /\ q.mode = Mode /\ q.blob # <<>> /\ ~TooBig(q.blob)
           /\ Goto(g, "lock")
           /\ result' = [result EXCEPT ![g] = NoResult]
           /\ UNCHANGED locals
  /\ UNCHANGED <<plan, hashing, cache, list>>

(* A slip: the hash is not locked. *)
SlipLock(g) ==
  /\ pc[g] = "lock"
  /\ mutex' = g
  /\ h' = req[g].mode
  /\ Goto(g, "lang")
  /\ UNCHANGED <<plan, cache, list, req, locals, result, calls>>

(* computeKey takes the lock, resets the hash and writes the mode to it ... *)
Lock(g) ==
  /\ pc[g] = "lock" /\ mutex = None
  /\ mutex' = g
  /\ h' = req[g].mode
  /\ Goto(g, "lang")
  /\ UNCHANGED <<plan, cache, list, req, locals, result, calls>>

(* ... the language and the blob ... *)
WriteLang(g) ==
  /\ pc[g] = "lang"
  /\ h' = h \o req[g].lang
  /\ Goto(g, "blob")
  /\ UNCHANGED <<plan, mutex, cache, list, req, locals, result, calls>>

WriteBlob(g) ==
  /\ pc[g] = "blob"
  /\ h' = h \o req[g].blob
  /\ Goto(g, "sum")
  /\ UNCHANGED <<plan, mutex, cache, list, req, locals, result, calls>>

(* A slip: the lock is kept. *)
SlipSum(g) ==
  /\ pc[g] = "sum"
  /\ key' = [key EXCEPT ![g] = h]
  /\ Goto(g, "get")
  /\ UNCHANGED <<plan, hashing, cache, list, req, pos, base, result, calls>>

(* ... and returns the sum. *)
Sum(g) ==
  /\ pc[g] = "sum"
  /\ key' = [key EXCEPT ![g] = h]
  /\ mutex' = None
  /\ Goto(g, "get")
  /\ UNCHANGED <<plan, h, cache, list, req, pos, base, result, calls>>

(* getUASTCache and Get.  The cached node is filtered by XPath and marshalled,
   and when one of these fails the result is NULL. *)
Get(g) ==
  /\ pc[g] = "get"
  /\ \/ \E e \in cache : /\ e.key = key[g]
                         /\ Return(g, "node", "cache", e.node) \/ ReturnNull(g, "xpath")
     \/ (\A e \in cache : e.key # key[g]) /\ Continue(g, "client") /\ UNCHANGED locals
  /\ UNCHANGED <<plan, hashing, cache, list, req, calls>>

(* getUASTFromBblfsh gets the client of the session, which may fail. *)
GetClient(g) ==
  /\ pc[g] = "client"
  /\ \/ ReturnError(g, "client")
     \/ Continue(g, IF req[g].lang = <<>> THEN "parse" ELSE "languages") /\ UNCHANGED locals
  /\ UNCHANGED <<plan, hashing, cache, list, req, calls>>

(* SupportedLanguages: the list is empty, or can be used. *)
SupportedLanguages(g) ==
  /\ pc[g] = "languages"
  /\ Goto(g, IF langs.len = 0 THEN "request" ELSE "search")
  /\ UNCHANGED <<plan, hashing, cache, list, req, locals, result, calls>>

(* A slip: the first manifest is left out. *)
SlipRequest(g) ==
  /\ pc[g] = "request"
  /\ \/ ReturnError(g, "request")
     \/ Continue(g, "load") /\ pos' = [pos EXCEPT ![g] = 2] /\ UNCHANGED <<key, base>>
  /\ UNCHANGED <<plan, hashing, cache, list, req, calls>>

(* The manifests are asked for, which may fail. *)
Request(g) ==
  /\ pc[g] = "request"
  /\ \/ ReturnError(g, "request")
     \/ Continue(g, "load") /\ pos' = [pos EXCEPT ![g] = 1] /\ UNCHANGED <<key, base>>
  /\ UNCHANGED <<plan, hashing, cache, list, req, calls>>

(* append loads the header ... *)
Load(g) ==
  /\ pc[g] = "load"
  /\ IF pos[g] > Len(Manifests)
       THEN Goto(g, "search") /\ UNCHANGED base
       ELSE Goto(g, "append") /\ base' = [base EXCEPT ![g] = langs]
  /\ UNCHANGED <<plan, hashing, cache, list, req, key, pos, result, calls>>

Array(s) == IF s.arr = 0 THEN <<>> ELSE arrays[s.arr]

HasRoom(s) == s.len < Len(Array(s))

(* ... and stores it with one more language, in the same array if there is
   room and in one of twice the size if not. *)
AppendLanguage(g) ==
  /\ pc[g] = "append"
  /\ LET s == base[g]
         lang == Manifests[pos[g]]
         a == Array(s)
     IN
     IF HasRoom(s)
       THEN /\ arrays' = [arrays EXCEPT ![s.arr][s.len + 1] = lang]
            /\ langs' = [s EXCEPT !.len = @ + 1]
       ELSE /\ arrays' = Append(arrays, [i \in 1..(IF s.len = 0 THEN 1 ELSE 2 * s.len) |->
                                           CASE i <= s.len -> a[i]
                                             [] i = s.len + 1 -> lang
                                             [] OTHER -> <<>>])
            /\ langs' = [arr |-> Len(arrays'), len |-> s.len + 1]
  /\ pos' = [pos EXCEPT ![g] = @ + 1]
  /\ Goto(g, "load")
  /\ UNCHANGED <<plan, hashing, cache, req, key, base, result, calls>>

(* IsLanguageSupported looks the language up. *)
Search(g) ==
  /\ pc[g] = "search"
  /\ \/ /\ \E i \in 1..langs.len : Array(langs)[i] = req[g].lang
        /\ Continue(g, "parse") /\ UNCHANGED locals
     \/ /\ \A i \in 1..langs.len : Array(langs)[i] # req[g].lang
        /\ ReturnNull(g, "language")
  /\ UNCHANGED <<plan, hashing, cache, list, req, calls>>

(* A header that is read while another goroutine stores it may be torn. *)
Torn(g) ==
  /\ pc[g] \in {"load", "search"}
  /\ \E o \in Goroutine \ {g} : pc[o] = "append"
  /\ ReturnError(g, "torn")
  /\ UNCHANGED <<plan, hashing, cache, list, req, calls>>

(* ParseWithMode; a failure becomes NULL. *)
Parse(g) ==
  /\ pc[g] = "parse"
  /\ \/ ReturnNull(g, "parse")
     \/ Continue(g, "put") /\ UNCHANGED locals
  /\ UNCHANGED <<plan, hashing, cache, list, req, calls>>

(* The entry of the request joins the cache; a full cache evicts another. *)
Store(g) ==
  LET entry == [key |-> key[g], node |-> req[g]]
      others == {e \in cache : e.key # key[g]}
  IN
  \/ Cardinality(others) < CacheSize /\ cache' = others \union {entry}
  \/ /\ Cardinality(others) >= CacheSize
     /\ \E e \in others : cache' = (others \ {e}) \union {entry}

(* Put, and the answer; Put may fail. *)
Put(g) ==
  /\ pc[g] = "put"
  /\ \/ ReturnError(g, "failed") /\ UNCHANGED cache
     \/ Store(g) /\ (Return(g, "node", "bblfsh", req[g]) \/ ReturnNull(g, "xpath"))
  /\ UNCHANGED <<plan, hashing, list, req, calls>>

Go(g) ==
  \/ Lock(g) \/ WriteLang(g) \/ WriteBlob(g) \/ Sum(g) \/ Get(g) \/ GetClient(g)
  \/ SupportedLanguages(g) \/ Request(g) \/ Load(g) \/ AppendLanguage(g) \/ Search(g)
  \/ Torn(g) \/ Parse(g) \/ Put(g)

Filling == {"request", "load", "append"}

Step ==
  \/ Rewrite
  \/ \E g \in Goroutine : Go(g) \/ \E r \in Rows : Eval(g, r)

(* Notes whether a list is filled while another goroutine uses it. *)
Next ==
  /\ Step
  /\ crossed' = (crossed \/ \E f, g \in Goroutine :
                   f # g /\ pc'[f] \in Filling
                   /\ pc'[g] \in Filling \union {"languages", "search"})

Spec == Init /\ [][Next]_vars

(* Goroutines go on; the bblfsh server answers or its requests fail. *)
FairSpec == Spec /\ \A g \in Goroutine : WF_vars(Next /\ Go(g))

-----------------------------------------------------------------------------
(* Where a goroutine may be. *)
Labels ==
  {"idle", "lock", "lang", "blob", "sum", "get", "client", "languages", "request", "load",
   "append", "search", "parse", "put"}

(* What is written to the hash for a request. *)
Bytes(q) == (q.mode \o q.lang) \o q.blob

(* Whatever goroutines share the hash and the cache, a UAST is that of the
   request or of one whose mode, language and content are the same characters
   in a row. *)
AnswersItsRequest ==
  \A g \in Goroutine :
    pc[g] = "idle" /\ result[g].kind = "node" => Bytes(result[g].node) = Bytes(req[g])

(* docs/using-gitbase/functions.md on uast_mode(mode, blob, lang): "returns a
   node array of UAST nodes specifying its language and mode".  What a call
   evaluates as mode, blob and language is what the query wrote in these places,
   however often the analyzer rewrote it. *)
EvaluatesAsWritten ==
  \A g \in Goroutine :
    req[g] # NoRequest =>
      req[g].mode = Mode /\ [lang |-> req[g].lang, blob |-> req[g].blob] \in Rows

Supported == {Manifests[i] : i \in DOMAIN Manifests}

Refused(g) == pc[g] = "idle" /\ result[g].why = "language" /\ req[g].lang \in Supported

(* A language of the server is refused by IsLanguageSupported only when goroutines
   met while the list was filled. *)
RefusedOnlyAfterCrossing == \A g \in Goroutine : Refused(g) => crossed

(* Every call ends. *)
CallsEnd == \A g \in Goroutine : pc[g] = "lock" ~> pc[g] = "idle"
=============================================================================
