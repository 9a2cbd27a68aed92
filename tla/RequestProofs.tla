--------------------------- MODULE RequestProofs ---------------------------
(***************************************************************************)
(* Proofs about Request: what holds of every request, for every document   *)
(* root, table of MIME types and bound of the token generator.             *)
(***************************************************************************)
EXTENDS Request, RoutingProofs, FiniteSetTheorems

----------------------------------------------------------------------------
(* The token generator                                                     *)

\* A token has finitely many random strings.
LEMMA RandomPartsFinite ==
  ASSUME out \in Seq(0..RandMax)
  PROVE  IsFiniteSet(RandomParts) /\ Cardinality(RandomParts) \in Nat
  <1>1. RandomParts \subseteq 1..Len(out) /\ Len(out) \in Nat
    BY DEF RandomParts
  <1>2. IsFiniteSet(1..Len(out))
    BY <1>1, FS_Interval
  <1>3. IsFiniteSet(RandomParts)
    BY <1>1, <1>2, FS_Subset
  <1> QED
    BY <1>3, FS_CardinalityType

\* A word leaves the random strings alone, a random string is one more.
LEMMA RandomPartsAppend ==
  ASSUME out \in Seq(0..RandMax), NEW x \in 0..RandMax, out' = Append(out, x),
         RandMax \in Nat
  PROVE  /\ out' \in Seq(0..RandMax) /\ Len(out') = Len(out) + 1
         /\ x = Word => Cardinality(RandomParts)' = Cardinality(RandomParts)
         /\ x # Word => Cardinality(RandomParts)' = Cardinality(RandomParts) + 1
         /\ \A i \in RandomParts' : (i \in RandomParts /\ out'[i] = out[i]) \/ out'[i] = x
  <1> DEFINE n == Len(out)
  <1>1. /\ out' \in Seq(0..RandMax) /\ Len(out') = n + 1 /\ n \in Nat
        /\ \A i \in 1..n : out'[i] = out[i]
        /\ out'[n + 1] = x
    OBVIOUS
  <1>2. DOMAIN out = 1..n /\ DOMAIN out' = 1..n + 1
    BY <1>1
  <1>3. \A i : i \in RandomParts' <=> i \in RandomParts \/ (i = n + 1 /\ x # Word)
    BY <1>1, <1>2 DEF RandomParts
  <1>4. n + 1 \notin RandomParts
    BY <1>1, <1>2 DEF RandomParts
  <1>5. \A i \in RandomParts' : (i \in RandomParts /\ out'[i] = out[i]) \/ out'[i] = x
    BY <1>1, <1>2, <1>3 DEF RandomParts
  <1>6. CASE x = Word
    <2>1. RandomParts' = RandomParts
      BY <1>3, <1>6
    <2> QED
      BY <1>1, <1>5, <1>6, <2>1
  <1>7. CASE x # Word
    <2>1. RandomParts' = RandomParts \cup {n + 1}
      BY <1>3, <1>7
    <2>2. Cardinality(RandomParts') = Cardinality(RandomParts) + 1
      BY <1>4, <2>1, RandomPartsFinite, FS_AddElement
    <2> QED
      BY <1>1, <1>5, <1>7, <2>2
  <1> QED
    BY <1>6, <1>7

\* The invariant of the generator, whichever draw comes next.
LEMMA GenerateStep ==
  ASSUME GenerateTypeOK, GenerateInv, generating \/ joined \/ UNCHANGED gvars
  PROVE  GenerateTypeOK' /\ GenerateInv'
  <1>0. /\ MinParts \in Nat /\ MaxParts \in Nat /\ MaxInserts \in Nat
        /\ RandMin \in Nat /\ RandMin > 0 /\ RandMax \in Nat
    BY PartsAssumption, InsertsAssumption, RandAssumption
  <1>a. /\ Cardinality(RandomParts) \in Nat /\ Len(out) \in Nat
        /\ len \in Nat /\ random_insert_count \in Nat /\ chars \in Nat
        /\ out \in Seq(0..RandMax)
    BY <1>0, RandomPartsFinite DEF GenerateTypeOK
  <1>b. out' = out => RandomParts' = RandomParts
    BY DEF RandomParts
  <1>1. CASE draw_len
    <2>1. Idle /\ RandomParts' = RandomParts
      BY <1>1, <1>b DEF draw_len, GenerateInv
    <2>2. GenerateTypeOK'
      BY <1>0, <1>1 DEF draw_len, GenerateTypeOK
    <2>3. GenerateInv'
      BY <1>0, <1>a, <1>1, <2>1 DEF draw_len, GenerateInv, Idle, Pending
    <2> QED
      BY <2>2, <2>3
  <1>2. CASE insert_random
    <2>1. RandomParts' = RandomParts
      BY <1>2, <1>b DEF insert_random
    <2>2. GenerateTypeOK'
      BY <1>0, <1>2 DEF insert_random, GenerateTypeOK
    <2>3. GenerateInv'
      BY <1>0, <1>a, <1>2, <2>1 DEF insert_random, GenerateInv, Pending
    <2> QED
      BY <2>2, <2>3
  <1>3. CASE insert_word
    <2>1. Word \in 0..RandMax /\ out' = Append(out, Word)
      BY <1>0, <1>3 DEF insert_word, Word
    <2>2. /\ out' \in Seq(0..RandMax) /\ Len(out') = Len(out) + 1
          /\ Cardinality(RandomParts)' = Cardinality(RandomParts)
          /\ \A i \in RandomParts' : (i \in RandomParts /\ out'[i] = out[i]) \/ out'[i] = Word
      BY <1>0, <1>a, <2>1, RandomPartsAppend
    <2>3. \A i \in RandomParts' : i \in RandomParts /\ out'[i] = out[i]
      BY <2>2 DEF RandomParts
    <2>4. GenerateTypeOK'
      BY <1>3, <2>2 DEF insert_word, GenerateTypeOK
    <2>5. /\ stage = "parts" /\ stage' = stage /\ Len(out) < len /\ len' = len
          /\ random_insert_count' = random_insert_count
      BY <1>3 DEF insert_word
    <2>6. GenerateInv'
      BY <1>0, <1>a, <2>2, <2>3, <2>5 DEF GenerateInv, Pending
    <2> QED
      BY <2>4, <2>6
  <1>4. CASE after_parts
    <2>1. RandomParts' = RandomParts
      BY <1>4, <1>b DEF after_parts
    <2>2. GenerateTypeOK'
      BY <1>0, <1>4 DEF after_parts, GenerateTypeOK
    <2>3. /\ Len(out) = len /\ Cardinality(RandomParts) = random_insert_count
          /\ random_insert_count \in 0..MaxInserts /\ len \in MinParts..MaxParts
      BY <1>0, <1>a, <1>4 DEF after_parts, GenerateInv, GenerateTypeOK, Pending
    <2>4. CASE random_insert_count = 0
      BY <1>0, <1>a, <1>4, <2>1, <2>2, <2>3, <2>4 DEF after_parts, GenerateInv, Pending
    <2>5. CASE random_insert_count # 0
      BY <1>0, <1>a, <1>4, <2>1, <2>2, <2>3, <2>5 DEF after_parts, GenerateInv, Pending
    <2> QED
      BY <2>2, <2>4, <2>5
  <1>5. CASE next_char
    <2>1. RandomParts' = RandomParts
      BY <1>5, <1>b DEF next_char
    <2>2. GenerateTypeOK'
      BY <1>0, <1>a, <1>5 DEF next_char, GenerateTypeOK
    <2>3. GenerateInv'
      BY <1>0, <1>a, <1>5, <2>1 DEF next_char, GenerateInv, Pending
    <2> QED
      BY <2>2, <2>3
  <1>6. CASE end_randstr
    <2>1. chars \in RandMin..RandMax /\ out' = Append(out, chars)
      BY <1>0, <1>a, <1>6 DEF end_randstr, GenerateTypeOK
    <2>2. chars \in 0..RandMax /\ chars # Word
      BY <1>0, <2>1 DEF Word
    <2>3. /\ out' \in Seq(0..RandMax) /\ Len(out') = Len(out) + 1
          /\ Cardinality(RandomParts)' = Cardinality(RandomParts) + 1
          /\ \A i \in RandomParts' : (i \in RandomParts /\ out'[i] = out[i]) \/ out'[i] = chars
      BY <1>0, <1>a, <2>1, <2>2, RandomPartsAppend
    <2>4. \A i \in RandomParts' : out'[i] \in RandMin..RandMax
      BY <2>1, <2>3 DEF GenerateInv
    <2>5. GenerateTypeOK'
      BY <1>0, <1>6, <2>3 DEF end_randstr, GenerateTypeOK
    <2>6. /\ stage' = IF stage = "randstr" THEN "parts" ELSE "join"
          /\ len' = len /\ random_insert_count' = random_insert_count
      BY <1>6 DEF end_randstr
    <2>7. CASE stage = "randstr"
      BY <1>0, <1>a, <2>6, <2>3, <2>4, <2>5, <2>7 DEF GenerateInv, Pending
    <2>8. CASE stage = "last_randstr"
      <3>1. 1 \in 1..MaxInserts
        BY InsertsAssumption
      <3> QED
        BY <1>0, <1>a, <2>6, <2>3, <2>4, <2>5, <2>8, <3>1 DEF GenerateInv, Pending
    <2> QED
      BY <1>6, <2>7, <2>8 DEF end_randstr
  <1>7. CASE joined
    <2>1. out' = <<>> /\ stage' = "idle" /\ Idle'
      BY <1>7 DEF joined, Idle
    <2>2. RandomParts' = {}
      BY <2>1 DEF RandomParts
    <2>3. Cardinality(RandomParts)' = 0
      BY <2>2, FS_EmptySet
    <2>4. GenerateTypeOK'
      BY <1>0, <1>7 DEF joined, GenerateTypeOK
    <2>5. GenerateInv'
      BY <1>7, <2>1, <2>2, <2>3 DEF joined, GenerateInv, Pending
    <2> QED
      BY <2>4, <2>5
  <1>8. CASE UNCHANGED gvars
    <2>1. RandomParts' = RandomParts
      BY <1>8, <1>b DEF gvars
    <2>2. GenerateTypeOK'
      BY <1>8 DEF gvars, GenerateTypeOK
    <2>3. GenerateInv'
      BY <1>8, <2>1 DEF gvars, GenerateInv, Idle, Pending
    <2> QED
      BY <2>2, <2>3
  <1> QED
    BY <1>1, <1>2, <1>3, <1>4, <1>5, <1>6, <1>7, <1>8 DEF generating

----------------------------------------------------------------------------
(* The handlers                                                            *)

\* The paths the proofs about a request are about.
LEMMA RequestPaths ==
  ASSUME ControlInv
  PROVE  req.target.path \in Path /\ doc_root \in Path
  BY RequestsAssumption, DocRootsAssumption DEF ControlInv

\* What the table gives is a handler, and handle_post only for its page.
LEMMA RouteType ==
  ASSUME NEW path
  PROVE  /\ route(path) \in Handlers \cup {"not_found"}
         /\ route(path) = "handle_post" => path = PostPage
  BY RouteDef DEF Handlers, is_post

\* The invariant holds when a request begins.
LEMMA InitInv ==
  ASSUME Init
  PROVE  IInv
  <1> USE DEF Init
  <1>1. RandomParts = {} /\ Cardinality(RandomParts) = 0
    <2>1. RandomParts = {}
      BY DEF RandomParts, Idle
    <2> QED
      BY <2>1, FS_EmptySet
  <1>2. GenerateTypeOK
    BY PartsAssumption, InsertsAssumption, RandAssumption DEF GenerateTypeOK, Idle
  <1>3. GenerateInv
    BY <1>1 DEF GenerateInv, Idle, Pending
  <1>4. TypeOK
    BY <1>2 DEF TypeOK, Idle, Constructed, Pc, NoReply
  <1>5. ControlInv
    BY DEF ControlInv, Handlers, PostSteps
  <1>6. TokenInv
    BY DEF TokenInv
  <1>7. PathInRoot
    BY DEF PathInRoot
  <1>8. ServedAs
    BY DEF ServedAs, NotOpened
  <1> QED
    BY <1>3, <1>4, <1>5, <1>6, <1>7, <1>8 DEF IInv

\* Every step keeps the types and the count of the generator.
LEMMA TypeStep ==
  ASSUME TypeOK, GenerateInv, [Next]_vars
  PROVE  TypeOK' /\ GenerateInv'
  <1> USE DEF TypeOK
  <1>1. CASE handle_request
    BY <1>1, GenerateStep, RouteType DEF handle_request, Send, bad_request, Goto, postvars, mpvars, gvars, Pc, Handlers
  <1>2. CASE handle_file
    BY <1>2, GenerateStep DEF handle_file, Send, bad_request, postvars, mpvars, gvars, Pc, Handlers
  <1>3. CASE handle_get_template
    BY <1>3, GenerateStep DEF handle_get_template, Send, bad_request, postvars, mpvars, gvars, Pc, Handlers
  <1>4. CASE handle_get_url
    BY <1>4, GenerateStep DEF handle_get_url, Send, bad_request, postvars, mpvars, gvars, Pc, Handlers
  <1>5. CASE post_refused
    BY <1>5, GenerateStep DEF post_refused, Send, bad_request, postvars, mpvars, gvars, Pc, Handlers
  <1>6. CASE parse_throws
    BY <1>6, GenerateStep DEF parse_throws, Goto, postvars, mpvars, gvars, Pc, Handlers
  <1>7. CASE post_urlencoded
    BY <1>7, GenerateStep DEF post_urlencoded, Send, bad_request, Goto, mpvars, gvars, Pc, Handlers
  <1>8. CASE post_multipart
    BY <1>8, GenerateStep DEF post_multipart, Goto, gvars, Pc, Handlers
  <1>9. CASE callback
    BY <1>9, GenerateStep DEF callback, gvars, Pc, Handlers
  <1>10. CASE search_url
    BY <1>10, GenerateStep DEF search_url, Send, bad_request, Goto, mpvars, gvars, Pc, Handlers
  <1>11. CASE check_url
    BY <1>11, GenerateStep DEF check_url, Send, bad_request, Goto, postvars, mpvars, gvars, Pc, Handlers
  <1>12. CASE generate
    BY <1>12, GenerateStep DEF generate, mpvars, Pc, Handlers
  <1>13. CASE generated
    BY <1>13, GenerateStep DEF generated, joined, Goto, mpvars, Pc, Handlers
  <1>14. CASE store
    BY <1>14, GenerateStep DEF store, Send, bad_request, postvars, mpvars, gvars, Pc, Handlers
  <1>15. CASE UNCHANGED vars
    BY <1>15, GenerateStep DEF vars, mpvars, gvars
  <1> QED
    BY <1>1, <1>2, <1>3, <1>4, <1>5, <1>6, <1>7, <1>8, <1>9, <1>10, <1>11, <1>12, <1>13,
       <1>14, <1>15 DEF Next, handle_post, Ended

\* A request is refused or gets to the handler that the table names; what
\* follows handle_post keeps to its page.
LEMMA ControlStep ==
  ASSUME TypeOK, ControlInv, [Next]_vars
  PROVE  ControlInv'
  <1>1. req' = req /\ doc_root' = doc_root
    BY DEF Next, handle_request, handle_file, handle_get_template, handle_get_url, handle_post,
           post_refused, parse_throws, post_urlencoded, post_multipart, callback, search_url,
           check_url, generate, generated, store, Ended, vars
  <1>2. pc' = "ingest" => is_multipart'
    <2>1. is_multipart' <=> is_multipart
      BY <1>1 DEF is_multipart
    <2>2. pc' = "ingest" => post_multipart \/ pc = "ingest"
      BY RouteType DEF Next, handle_request, handle_file, handle_get_template, handle_get_url,
           handle_post, post_refused, parse_throws, post_urlencoded, callback, search_url, check_url,
           generate, generated, store, Ended, vars, Send, bad_request, Goto, Handlers
    <2> QED
      BY <2>1, <2>2 DEF ControlInv, post_multipart
  <1>3. CASE handle_request
    <2>1. CASE pc' \in Handlers
      <3>1. ~illegal_target(req.target) /\ route(req.target.path) = pc'
        BY <1>3, <2>1, RouteType DEF handle_request, Send, bad_request, Goto, Handlers
      <3>2. pc' \notin PostSteps
        BY <2>1 DEF Handlers, PostSteps
      <3> QED
        BY <1>1, <1>2, <3>1, <3>2 DEF ControlInv
    <2>2. CASE pc' \notin Handlers
      <3>1. pc' \notin PostSteps
        BY <1>3, <2>2, RouteType DEF handle_request, Send, bad_request, Goto, Handlers, PostSteps
      <3> QED
        BY <1>1, <1>2, <2>2, <3>1 DEF ControlInv
    <2> QED
      BY <2>1, <2>2
  <1>4. CASE pc = "handle_post" /\ pc' \in PostSteps /\ req.method = "post"
    <2>1. req.target.path = PostPage /\ ~illegal_target(req.target)
      BY <1>4, RouteType DEF ControlInv, Handlers
    <2>2. pc' \notin Handlers
      BY <1>4 DEF Handlers, PostSteps
    <2> QED
      BY <1>1, <1>2, <1>4, <2>1, <2>2 DEF ControlInv
  <1>5. CASE pc \in PostSteps /\ pc' \in PostSteps
    <2>1. pc' \notin Handlers
      BY <1>5 DEF Handlers, PostSteps
    <2> QED
      BY <1>1, <1>2, <1>5, <2>1 DEF ControlInv
  <1>6. CASE pc' = pc
    BY <1>1, <1>2, <1>6 DEF ControlInv
  <1>7. CASE pc' \in {"done", "terminated"}
    BY <1>1, <1>2, <1>7 DEF ControlInv, Handlers, PostSteps
  <1>8. \/ handle_request
        \/ pc = "handle_post" /\ pc' \in PostSteps /\ req.method = "post"
        \/ pc \in PostSteps /\ pc' \in PostSteps
        \/ pc' = pc
        \/ pc' \in {"done", "terminated"}
    BY DEF Next, handle_file, handle_get_template, handle_get_url, handle_post,
           post_refused, parse_throws, post_urlencoded, post_multipart, callback, search_url,
           check_url, generate, generated, store, Ended, vars, Send, bad_request, Goto, PostSteps
  <1> QED
    BY <1>3, <1>4, <1>5, <1>6, <1>7, <1>8

\* Every step keeps what is known about files opened and tokens.
LEMMA TokenStep ==
  ASSUME TypeOK, TokenInv, [Next]_vars
  PROVE  TokenInv'
  <1>1. CASE generated
    <2>1. PICK e \in Exts : token' = TokenPath(e)
      BY <1>1 DEF generated
    <2>2. token' # <<>>
      BY <2>1 DEF TokenPath
    <2> QED
      BY <1>1, <2>1, <2>2 DEF generated, Goto, TokenInv
  <1>2. CASE pc' = "done" /\ UNCHANGED token
    BY <1>2 DEF TokenInv
  <1>3. CASE pc # "done" /\ UNCHANGED <<opened, token>> /\ pc' # "store"
    BY <1>3 DEF TokenInv
  <1>4. CASE UNCHANGED vars
    BY <1>4 DEF TokenInv, vars
  <1>5. \/ generated
        \/ pc' = "done" /\ UNCHANGED token
        \/ pc # "done" /\ UNCHANGED <<opened, token>> /\ pc' # "store"
        \/ UNCHANGED vars
    BY RouteType DEF Next, handle_request, handle_file, handle_get_template, handle_get_url,
           handle_post, post_refused, parse_throws, post_urlencoded, post_multipart, callback,
           search_url, check_url, generate, store, Ended, Send, bad_request, Goto,
           Handlers, postvars
  <1> QED
    BY <1>1, <1>2, <1>3, <1>4, <1>5

\* A file that handle_file opens is in the root, one of the static files, and
\* gets its own type.
LEMMA FileStep ==
  ASSUME TypeOK, ControlInv, handle_file, req.method \in {"get", "head"}
  PROVE  PathInRoot' /\ ServedAs'
  <1>1. PICK t, d : t = req.target.path /\ d = doc_root
    OBVIOUS
  <1>2. t \in Path /\ d \in Path
    BY <1>1, RequestPaths
  <1>3. /\ req' = req /\ doc_root' = doc_root
        /\ opened' = [by |-> "file_body", path |-> path_cat(d, t)]
        /\ \/ reply'.status # "ok"
           \/ reply'.mime = get_mime_type(path_cat(d, t), mimetypes, Default)
    BY <1>1 DEF handle_file, Send, bad_request
  <1>a. ~illegal_target(req.target) /\ route(t) = "handle_file"
    BY <1>1 DEF handle_file, ControlInv, Handlers
  <1>b. \A i \in 1..Len(t) : t[i] # DotDot
    BY <1>1, <1>2, <1>a, LegalTarget
  <1>4. PathInRoot'
    <2>1. IsPrefix(Resolve(d), Resolve(path_cat(d, t)))
      BY <1>2, <1>b, PathCatInside
    <2> QED
      BY <1>1, <1>3, <2>1 DEF PathInRoot
  <1>c. StaticFile(opened.path)'
    <2>1. PICK p : p = path_cat(d, t)
      OBVIOUS
    <2>2. \/ IsPrefix(Append(Resolve(d), Assets), Resolve(p))
          \/ Resolve(p) \in { Append(Resolve(d), s) :
                                s \in {<<"favicon", "ico">>, <<"robots", "txt">>} }
      BY <1>2, <1>a, <1>b, <2>1, StaticPath
    <2>3. opened'.path = p /\ doc_root' = d
      BY <1>1, <1>3, <2>1
    <2> QED
      BY <2>2, <2>3 DEF StaticFile, Assets
  <1>5. PICK name : name = Last(t)
    OBVIOUS
  <1>6. Len(name) \in Nat \ {0}
    <2>1. name \in Segment
      BY <1>2, <1>5 DEF Path, Last
    <2> QED
      BY <2>1 DEF Segment
  <1>7. get_mime_type(path_cat(d, t), mimetypes, Default) = find_filename(name, mimetypes, Default)
    BY <1>2, <1>5, LastConcat DEF get_mime_type
  <1>8. PICK v, known : /\ v = find_filename(name, mimetypes, Default)
                        /\ known = Known(name, mimetypes)
    OBVIOUS
  <1>9. \/ known = {} /\ v = Default
        \/ \E i \in known : /\ \A j \in known : i <= j
                            /\ v = mimetypes[SubSeq(name, i, Len(name))]
    BY <1>6, <1>8, MimeType
  <1>10. ServedAs'
    BY <1>1, <1>3, <1>5, <1>7, <1>8, <1>9, <1>c DEF ServedAs, Known, mimetypes
  <1> QED
    BY <1>4, <1>10

\* The template of a page is in the root, too, and an HTML file.
LEMMA TemplateStep ==
  ASSUME TypeOK, ControlInv, handle_get_template, req.method = "get"
  PROVE  PathInRoot' /\ ServedAs'
  <1>1. PICK t, d, p : t = req.target.path /\ d = doc_root /\ p = with_index(path_cat(d, t), t)
    OBVIOUS
  <1>2. t \in Path /\ d \in Path
    BY <1>1, RequestPaths
  <1>3. /\ req' = req /\ doc_root' = doc_root
        /\ opened' = [by |-> "inja", path |-> p]
    BY <1>1 DEF handle_get_template, page_path
  <1>4. ~illegal_target(req.target) /\ route(t) = "handle_get_template"
    BY <1>1 DEF handle_get_template, ControlInv, Handlers
  <1>5. PathInRoot'
    <2>1. \A i \in 1..Len(t) : t[i] # DotDot
      BY <1>1, <1>2, <1>4, LegalTarget
    <2>2. IsPrefix(Resolve(d), Resolve(p))
      BY <1>1, <1>2, <2>1, PathCatInside
    <2> QED
      BY <1>1, <1>3, <2>2 DEF PathInRoot
  <1>6. Last(Last(Resolve(p))) = "html"
    BY <1>1, <1>2, <1>4, HtmlPath
  <1>7. ServedAs'
    BY <1>1, <1>3, <1>6 DEF ServedAs
  <1> QED
    BY <1>5, <1>7

\* And so is the page of a new short URL.
LEMMA StoreStep ==
  ASSUME TypeOK, ControlInv, TokenInv, store, opened' # opened
  PROVE  PathInRoot' /\ ServedAs'
  <1>1. PICK t, d, p : t = req.target.path /\ d = doc_root /\ p = with_index(path_cat(d, t), t)
    OBVIOUS
  <1>2. t \in Path /\ d \in Path
    BY <1>1, RequestPaths
  <1>3. /\ req' = req /\ doc_root' = doc_root /\ token' = token
        /\ opened' = [by |-> "inja", path |-> p]
    BY <1>1 DEF store, page_path, postvars
  <1>4. ~illegal_target(req.target) /\ t = PostPage /\ req.method = "post" /\ token # <<>>
    BY <1>1 DEF store, ControlInv, TokenInv, PostSteps
  <1>5. PathInRoot'
    <2>1. \A i \in 1..Len(t) : t[i] # DotDot
      BY <1>1, <1>2, <1>4, LegalTarget
    <2>2. IsPrefix(Resolve(d), Resolve(p))
      BY <1>1, <1>2, <2>1, PathCatInside
    <2> QED
      BY <1>1, <1>3, <2>2 DEF PathInRoot
  <1>6. Last(Last(Resolve(p))) = "html"
    BY <1>1, <1>2, <1>4, HtmlPath
  <1>7. ServedAs'
    BY <1>1, <1>3, <1>6 DEF ServedAs
  <1> QED
    BY <1>5, <1>7

\* Every step that opens a file opens one in the root, with its type.
LEMMA OpenedStep ==
  ASSUME IInv, [Next]_vars
  PROVE  PathInRoot' /\ ServedAs'
  <1>1. CASE opened' = NotOpened
    BY <1>1 DEF PathInRoot, ServedAs, NotOpened
  <1>2. CASE opened' # NotOpened
    <2>1. CASE handle_file
      BY <1>2, <2>1, FileStep DEF handle_file, IInv, TokenInv
    <2>2. CASE handle_get_template
      BY <1>2, <2>2, TemplateStep DEF handle_get_template, IInv, TokenInv
    <2>3. CASE store
      BY <1>2, <2>3, StoreStep DEF store, IInv, TokenInv
    <2>4. CASE UNCHANGED vars
      BY <2>4 DEF vars, IInv, PathInRoot, ServedAs, StaticFile
    <2>5. handle_file \/ handle_get_template \/ store \/ UNCHANGED vars
      BY <1>2 DEF IInv, TokenInv, Next, handle_request, handle_get_url, handle_post, post_refused,
           parse_throws, post_urlencoded, post_multipart, callback, search_url, check_url,
           generate, generated, Ended
    <2> QED
      BY <2>1, <2>2, <2>3, <2>4, <2>5
  <1> QED
    BY <1>1, <1>2

----------------------------------------------------------------------------
(* The properties                                                          *)

\* The inductive invariant holds from handle_request to the response,
\* whatever the request, the configuration and the draws of the generator.
THEOREM RequestInvariant == Spec => []IInv
  <1>1. Init => IInv
    BY InitInv
  <1>2. IInv /\ [Next]_vars => IInv'
    <2> SUFFICES ASSUME IInv, [Next]_vars
                 PROVE  IInv'
      OBVIOUS
    <2>1. TypeOK' /\ GenerateInv'
      BY TypeStep DEF IInv
    <2>2. ControlInv'
      BY ControlStep DEF IInv
    <2>3. TokenInv'
      BY TokenStep DEF IInv
    <2>4. PathInRoot' /\ ServedAs'
      BY OpenedStep
    <2> QED
      BY <2>1, <2>2, <2>3, <2>4 DEF IInv
  <1> QED
    BY <1>1, <1>2, PTL DEF Spec

\* The state of a request is well typed: in particular there is one response
\* exactly when its handler has ended without an exception.
THEOREM RequestTypes == Spec => []TypeOK
  <1>1. IInv => TypeOK
    BY DEF IInv
  <1> QED
    BY <1>1, RequestInvariant, PTL

\* handle_file, handle_get_template and handle_post never open a file outside
\* the document root, for targets and roots of any length.
THEOREM RequestPathInRoot == Spec => []PathInRoot
  <1>1. IInv => PathInRoot
    BY DEF IInv
  <1> QED
    BY <1>1, RequestInvariant, PTL

\* Only files below assets/, favicon.ico and robots.txt are sent as they are,
\* each with the type of the longest known extension of its name, and only
\* HTML files get to the template engine, wherever in the root a path leads.
THEOREM RequestServedAs == Spec => []ServedAs
  <1>1. IInv => ServedAs
    BY DEF IInv
  <1> QED
    BY <1>1, RequestInvariant, PTL

\* What generate_random_filename joins has between one and MaxInserts random
\* strings, all of an allowed length, and at most one part more than drawn.
THEOREM RequestTokenRandom == Spec => []TokenRandom
  <1>1. IInv => TokenRandom
    <2> SUFFICES ASSUME IInv, stage = "join"
                 PROVE  /\ Cardinality(RandomParts) \in 1..MaxInserts
                        /\ \A i \in RandomParts : out[i] \in RandMin..RandMax
                        /\ Len(out) \in MinParts..MaxParts + 1
      BY DEF TokenRandom
    <2>1. len \in MinParts..MaxParts /\ Len(out) \in len..len + 1
      BY DEF IInv, GenerateInv
    <2>2. Len(out) \in MinParts..MaxParts + 1
      BY <2>1, PartsAssumption
    <2> QED
      BY <2>2 DEF IInv, GenerateInv
  <1> QED
    BY <1>1, RequestInvariant, PTL

\* The target of every new short URL is legal and its route is
\* handle_get_url, whichever extension of the table it got.
THEOREM RequestTokenRouted == Spec => []TokenRouted
  <1>1. IInv => TokenRouted
    <2> SUFFICES ASSUME IInv, token # <<>>
                 PROVE  /\ ~illegal_target([absolute |-> TRUE, path |-> token])
                        /\ route(token) = "handle_get_url"
      BY DEF TokenRouted
    <2>1. PICK e \in Exts : token = TokenPath(e)
      BY DEF IInv, TokenInv
    <2>2. e # "html" /\ e # "ico"
      BY DEF Exts
    <2>3. token = << <<"joined", e>> >>
      BY <2>1 DEF TokenPath
    <2>4. PICK p : p = token
      OBVIOUS
    <2> QED
      BY <2>2, <2>3, <2>4, TokenRoute
  <1> QED
    BY <1>1, RequestInvariant, PTL
=============================================================================
