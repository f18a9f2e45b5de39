-------------------------------- MODULE Adapters --------------------------------
(***************************************************************************)
(* What becomes of the URL of a job: which adapter takes it, what it plans,  *)
(* and what it makes of the output of opencli (internal/adapter,             *)
(* internal/runner/cli and the part of process that calls them).            *)
(***************************************************************************)
EXTENDS Integers, FiniteSetsExt

CONSTANT None

\* URLs, by what the adapters look at:
\*   answer    zhihu.com/question/7/answer/42
\*   answerId  any other URL with zhihu.com and /answer/42 in it
\*   article   zhuanlan.zhihu.com/p/7
\*   question  zhihu.com/question/7
\*   mention   another page with zhihu.com somewhere in its URL
\*   page      a page of any other site
\*   demo      a page under example.com/fake
\*   fixture   fake://...
\*   other     a scheme nobody takes, or none
Zhihu == {"answer", "answerId", "article", "question", "mention"}
Web == Zhihu \cup {"page", "demo"}
Url == Web \cup {"fixture", "other"}

ASSUME AdaptersAssumption ==
  None \notin Url \cup {"zhihu", "web", "fake", "answer", "article", "page"}

\* CanHandle.
Takes == [zhihu |-> Zhihu, web |-> Web, fake |-> {"fixture", "demo"}]

\* Mutant: the fixture adapter is registered before the catch-all.
RegistryFakeFirst == <<"zhihu", "fake", "web">>

Registry == <<"zhihu", "web", "fake">>

\* pickAdapter: the first one that can.
Able(u) == {i \in DOMAIN Registry : u \in Takes[Registry[i]]}
Pick(u) == IF Able(u) = {} THEN None ELSE Registry[Min(Able(u))]

\* classify and Plan: the type of document that is planned, None for an error.
Kind(u) ==
  CASE Pick(u) # "zhihu" -> "page"
    [] u \in {"answer", "answerId"} -> "answer"
    [] u = "article" -> "article"
    [] OTHER -> None

\* What opencli prints: nothing, text without a JSON item, an item with neither
\* content nor id, another one, one that also names its canonical URL.
Output == {"nothing", "text", "empty", "item", "named"}

\* How it ends; late: not before the timeout of the plan.
ToolRun ==
  [ok : {TRUE}, late : {FALSE}, out : Output]
    \cup [ok : {FALSE}, late : BOOLEAN, out : {"nothing"}]

\* Normalize succeeds: an answer needs content or an id, an article falls back to
\* its metadata, a page is whatever markdown there is.
Readable(kind, out) ==
  CASE kind = "answer" -> out \in {"item", "named"}
    [] kind = "article" -> out \in {"empty", "item", "named"}
    [] kind = "page" -> out # "nothing"

\* DocumentID hashes URL and type; an answer goes by the URL opencli names.
DocumentOf(u, out) ==
  <<IF Kind(u) = "answer" /\ out = "named" THEN "answer" ELSE u, Kind(u)>>

\* The fixture adapter plans no command, which the CLI runner refuses.
HasCommand(u) == Pick(u) # "fake"

\* The codes a job may end with; no_command is a runner_failed where opencli is not
\* started.  Nothing but the store is left to refuse a packet that is made.
ErrorsOf(u, run) ==
  IF Pick(u) = None THEN {"adapter_not_found"}
  ELSE IF Kind(u) = None THEN {"plan_failed"}
  ELSE IF ~HasCommand(u) THEN {"no_command"}
  ELSE IF ~run.ok THEN {IF run.late THEN "runner_timeout" ELSE "runner_failed"}
  ELSE IF ~Readable(Kind(u), run.out) THEN {"normalize_failed"}
  ELSE {"ok", "store_failed"}
================================================================================
