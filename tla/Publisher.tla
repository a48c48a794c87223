----------------------------- MODULE Publisher -----------------------------
(***************************************************************************)
(* `gnohome tx` and `gnoblog tx` (src/tools/gnohome, src/tools/gnoblog):   *)
(* local markdown is compared with the manifest of a realm and what        *)
(* differs becomes one document, signed by gnokey for a chain and an       *)
(* account sequence, then broadcast.  Between any two of these steps the   *)
(* files may change, the key may sign something else, another invocation   *)
(* may run for another chain, and a printed command may be run late.       *)
(***************************************************************************)
EXTENDS Naturals, FiniteSets

CONSTANTS
    Names,          \* slots, or posts
    Intro,          \* the one of the blog that is its header
    Bodies,         \* what a file may hold
    Contents,       \* the content directories to start from
    Blank,          \* the empty body
    Nothing,        \* no file, no slot
    Delete,         \* in a document: the call that removes
    Cat,            \* in a printed command: "$(/bin/cat <file>)"
    Networks,       \* chains the same key signs for
    Shared,         \* those of them it is used on by other tools as well
    MaxAttempts,    \* maxAttempts of gnohome's withRetry
    MaxRuns,        \* bound on the invocations, scripts included, for model checking
    MaxElsewhere    \* bound on what the key signs elsewhere and on the edits of the files

ASSUME PublisherAssumption ==
    /\ Intro \in Names /\ Blank \notin Bodies
    /\ Contents \subseteq [Names -> Bodies \cup {Nothing}]
    /\ {Nothing, Delete, Cat} \cap (Bodies \cup {Blank}) = {}
    /\ Nothing \notin {Delete, Cat} /\ Delete # Cat
    /\ Shared \subseteq Networks /\ MaxAttempts \in Nat \ {0} /\ {MaxRuns, MaxElsewhere} \subseteq Nat

VARIABLES
    site,           \* "home" or "blog": which of the two tools
    content,        \* [Names -> Bodies \cup {Nothing}]: the markdown files
    page,           \* [Networks -> [Names -> ...]]: what each chain holds
    sequence,       \* [Networks -> Nat]: of the account that signs
    docs,           \* [paths -> document]: the transaction documents on disk
    scripts,        \* [paths -> commands]: what was printed to act on them
    pasted,         \* [Networks -> [SUBSET Names -> ...]]: single commands not run yet
    push,           \* [Networks -> job]: the invocation in progress for each chain
    spent           \* what counts against the bounds

publishVars == <<site, content, page, sequence, docs, scripts, pasted, push, spent>>

Held == Bodies \cup {Blank, Nothing}

\* -print, -batch FILE, -inline, -run: the blog runs unless told to print.
Modes(s) == IF s = "home" THEN {"paste", "inline", "batch", "run"} ELSE {"batch", "run"}

NoMessages == [n \in {} |-> Nothing]
NoPush == [pc |-> "idle", all |-> FALSE, prune |-> FALSE, mode |-> "run", loaded |-> <<>>,
           seen |-> <<>>, msgs |-> NoMessages, seq |-> 0, tries |-> 0]
\* A document, and (history) the account and the diff it was built from.
NoDoc == [net |-> "none", seq |-> 0, loaded |-> <<>>, seen |-> <<>>, prune |-> FALSE,
          msgs |-> NoMessages, sig |-> <<>>]
NoScript == [net |-> "none", seq |-> 0]

DocPaths == {<<"home", net>> : net \in Networks} \cup {<<"blog">>}
\* Where the document goes by default: keyed by the chain in gnohome, next to the
\* content directory in gnoblog.  A file its author names (-batch, -out) is taken to be
\* this one: a name of its own for each chain, or for all of them, is what the two do.
defaultBatchPath(net) == IF site = "home" THEN <<"home", net>> ELSE <<"blog">>

\* The blog's manifest always has a row for the intro.
Empty(s) == [n \in Names |-> IF s = "blog" /\ n = Intro THEN Blank ELSE Nothing]

PublisherInit ==
    /\ site \in {"home", "blog"}
    /\ content \in Contents
    /\ page = [net \in Networks |-> Empty(site)]
    /\ sequence = [net \in Networks |-> 0]
    /\ docs = [p \in DocPaths |-> NoDoc] /\ scripts = [p \in DocPaths |-> NoScript]
    /\ pasted = [net \in Networks |-> NoMessages]
    /\ push = [net \in Networks |-> NoPush]
    /\ spent = [runs |-> 0, elsewhere |-> 0]
-----------------------------------------------------------------------------
Local(loaded) == {n \in Names : loaded[n] # Nothing}

\* On chain without a local file; the header of the blog is left alone.
extraChanges(loaded, seen) ==
    {n \in Names \ Local(loaded) : seen[n] # Nothing /\ ~(site = "blog" /\ n = Intro)}

diff(loaded, seen) == {n \in Local(loaded) : loaded[n] # seen[n]} \cup extraChanges(loaded, seen)

\* -all: every local file; gnohome still reports what only the chain has.
allChanges(loaded, seen) == Local(loaded) \cup extraChanges(loaded, seen)

\* What becomes a message.
emittable(changes, loaded, prune) == IF prune THEN changes ELSE changes \cap Local(loaded)

Messages(names, loaded) == [n \in names |-> IF loaded[n] = Nothing THEN Delete ELSE loaded[n]]

\* Printed one by one, the body is read when the command is pasted.
PasteCommands(job, msgs) ==
    [n \in DOMAIN msgs |-> IF msgs[n] # Delete /\ job.mode = "paste" THEN Cat ELSE msgs[n]]

\* One of the events the instance bounds.
Spends(what, max) == spent[what] < max /\ spent' = [spent EXCEPT ![what] = @ + 1]

Set(net, job) == push' = [push EXCEPT ![net] = job]

\* -all of the blog does not read the chain.
Start(net, all, prune, mode) ==
    /\ push[net].pc = "idle" /\ Spends("runs", MaxRuns)
    /\ mode \in Modes(site)
    /\ LET job == [NoPush EXCEPT !.all = all, !.prune = prune, !.mode = mode,
                      !.loaded = content, !.tries = IF site = "home" THEN MaxAttempts ELSE 1]
       IN  IF site = "blog" /\ all
           THEN /\ Local(content) # {}
                /\ Set(net, [job EXCEPT !.pc = "account", !.msgs = Messages(Local(content), content)])
           ELSE Set(net, [job EXCEPT !.pc = "manifest"])
    /\ UNCHANGED <<site, content, page, sequence, docs, scripts, pasted>>

\* A read that is refused at the edge or not answered is tried again, by gnohome;
\* any other answer is final.
Unheard(net, answer) ==
    LET job == push[net]
    IN  /\ job.pc \in {"manifest", "account"} /\ answer \in {"refused", "error"}
        /\ IF answer = "refused" /\ job.tries > 1
           THEN Set(net, [job EXCEPT !.tries = @ - 1])
           ELSE Set(net, NoPush)
        /\ UNCHANGED <<site, content, page, sequence, docs, scripts, pasted, spent>>

ReadManifest(net) ==
    LET job == push[net]
        seen == page[net]
        changes == IF job.all THEN allChanges(job.loaded, seen) ELSE diff(job.loaded, seen)
        msgs == Messages(emittable(changes, job.loaded, job.prune), job.loaded)
        single == job.mode \in {"paste", "inline"}
    IN  /\ job.pc = "manifest"
        /\ Set(net, IF single \/ DOMAIN msgs = {} THEN NoPush
                    ELSE [job EXCEPT !.pc = "account", !.seen = seen, !.msgs = msgs,
                             !.tries = IF site = "home" THEN MaxAttempts ELSE 1])
        /\ pasted' = IF single THEN [pasted EXCEPT ![net] = PasteCommands(job, msgs)] ELSE pasted
        /\ UNCHANGED <<site, content, page, sequence, docs, scripts, spent>>

\* The account is read, the document written and, unless the blog runs it at once,
\* the commands that sign and broadcast it.
WriteDocument(net) ==
    LET job == push[net]
        path == defaultBatchPath(net)
    IN  /\ job.pc = "account"
        /\ docs' = [docs EXCEPT ![path] =
                      [net |-> net, seq |-> sequence[net], loaded |-> job.loaded,
                       seen |-> job.seen, prune |-> job.prune, msgs |-> job.msgs, sig |-> <<>>]]
        /\ scripts' = IF site = "blog" /\ job.mode = "run" THEN scripts
                      ELSE [scripts EXCEPT ![path] = [net |-> net, seq |-> sequence[net]]]
        /\ Set(net, IF job.mode = "run" THEN [NoPush EXCEPT !.pc = "sign", !.seq = sequence[net]]
                    ELSE NoPush)
        /\ UNCHANGED <<site, content, page, sequence, pasted, spent>>

\* The printed commands, or the script, run now or again: same document, same sequence.
RunScript(path) ==
    LET s == scripts[path]
    IN  /\ s.net # "none" /\ push[s.net].pc = "idle" /\ Spends("runs", MaxRuns)
        /\ Set(s.net, [NoPush EXCEPT !.pc = "sign", !.seq = s.seq])
        /\ UNCHANGED <<site, content, page, sequence, docs, scripts, pasted>>

\* Plausible bug: the account is read again when the document is signed.
freshSequence(net) == sequence[net]
\* The sequence the signature covers.
signedSequence(net) == push[net].seq

\* gnokey signs whatever the file holds by now, if it is given the passphrase.
Sign(net, accepted) ==
    /\ push[net].pc = "sign"
    /\ IF accepted
       THEN /\ docs' = [docs EXCEPT ![defaultBatchPath(net)].sig = <<net, signedSequence(net)>>]
            /\ Set(net, [push[net] EXCEPT !.pc = "broadcast"])
       ELSE Set(net, NoPush) /\ UNCHANGED docs
    /\ UNCHANGED <<site, content, page, sequence, scripts, pasted, spent>>

\* Deleting what is not there aborts the whole transaction.
Applies(held, msgs) == \A n \in DOMAIN msgs : msgs[n] = Delete => held[n] # Nothing
Applied(held, msgs) == [n \in Names |-> IF n \notin DOMAIN msgs THEN held[n]
                                        ELSE IF msgs[n] = Delete THEN Nothing ELSE msgs[n]]

\* The chain checks the signature, then applies all the messages or, out of gas or
\* refused by the realm, none.
Broadcast(net, enough) ==
    LET d == docs[defaultBatchPath(net)]
    IN  /\ push[net].pc = "broadcast"
        /\ IF d.sig = <<net, sequence[net]>>
           THEN /\ sequence' = [sequence EXCEPT ![net] = @ + 1]
                /\ page' = IF enough /\ Applies(page[net], d.msgs)
                           THEN [page EXCEPT ![net] = Applied(@, d.msgs)] ELSE page
           ELSE UNCHANGED <<page, sequence>>
        /\ Set(net, NoPush)
        /\ UNCHANGED <<site, content, docs, scripts, pasted, spent>>

\* One printed command: signed for the sequence of the moment, its body read now;
\* a file that is gone reads as nothing.
Paste(net, n) ==
    /\ n \in DOMAIN pasted[net]
    /\ LET c == pasted[net][n]
           body == CASE c = Cat /\ content[n] # Nothing -> content[n]
                     [] c = Cat /\ content[n] = Nothing -> Blank
                     [] OTHER -> c
           one == [m \in {n} |-> body]
       IN  page' = IF Applies(page[net], one) THEN [page EXCEPT ![net] = Applied(@, one)] ELSE page
    /\ pasted' = [pasted EXCEPT ![net] = [m \in DOMAIN @ \ {n} |-> @[m]]]
    /\ sequence' = [sequence EXCEPT ![net] = @ + 1]
    /\ UNCHANGED <<site, content, docs, scripts, push, spent>>

\* On a chain it is shared on the key signs something else: anything, or a change of the page from elsewhere.
Elsewhere(net, n, body) ==
    /\ net \in Shared /\ Spends("elsewhere", MaxElsewhere)
    /\ ~(site = "blog" /\ n = Intro /\ body = Nothing)
    /\ sequence' = [sequence EXCEPT ![net] = @ + 1]
    /\ page' = [page EXCEPT ![net][n] = body]
    /\ UNCHANGED <<site, content, docs, scripts, pasted, push>>

EditFile(n, body) ==
    /\ Spends("elsewhere", MaxElsewhere) /\ body # content[n]
    /\ content' = [content EXCEPT ![n] = body]
    /\ UNCHANGED <<site, page, sequence, docs, scripts, pasted, push>>

PublisherNext ==
    \/ \E net \in Networks :
          \/ \E all, prune \in BOOLEAN, mode \in Modes(site) : Start(net, all, prune, mode)
          \/ \E answer \in {"refused", "error"} : Unheard(net, answer)
          \/ ReadManifest(net) \/ WriteDocument(net)
          \/ \E yes \in BOOLEAN : Sign(net, yes) \/ Broadcast(net, yes)
          \/ \E n \in Names : Paste(net, n)
          \/ \E n \in Names, body \in Bodies \cup {Nothing} : Elsewhere(net, n, body)
    \/ \E path \in DocPaths : RunScript(path)
    \/ \E n \in Names, body \in Bodies \cup {Nothing} : EditFile(n, body)

PublisherSpec == PublisherInit /\ [][PublisherNext]_publishVars
-----------------------------------------------------------------------------
PublisherTypeOK ==
    /\ site \in {"home", "blog"}
    /\ content \in [Names -> Bodies \cup {Nothing}]
    /\ page \in [Networks -> [Names -> Held]]
    /\ sequence \in [Networks -> Nat]
    /\ \A net \in Networks : /\ push[net].pc \in {"idle", "manifest", "account", "sign", "broadcast"}
                             /\ push[net].tries \in 0 .. MaxAttempts
                             /\ DOMAIN pasted[net] \subseteq Names

Landing(net) == /\ push[net].pc = "broadcast" /\ push'[net].pc = "idle"
                /\ sequence'[net] # sequence[net]

\* A document lands where the account stood when it was built, so never twice, however
\* often its script is run again; and gnohome's lands on the chain it was built for,
\* whatever another invocation writes meanwhile.
LandsAsBuilt ==
    [][\A net \in Networks : Landing(net) =>
          LET d == docs[defaultBatchPath(net)]
          IN  /\ d.net = net => d.seq = sequence[net]
              /\ site = "home" => d.net = net]_publishVars

\* What lands is what was diffed: every file as it was loaded, unless the page moved
\* between the two reads; nothing with a file, and nothing at all without -prune, is
\* removed; with it everything without a file is, but by -all of the blog, which has not looked.
PushIsFaithful ==
    [][\A net \in Networks : (Landing(net) /\ page' # page) =>
          LET d == docs[defaultBatchPath(net)]
              known == d.seen # <<>>
          IN  d.net = net => \A n \in Names :
                 /\ d.loaded[n] # Nothing =>
                       page'[net][n] = d.loaded[n] \/ (known /\ page[net][n] # d.seen[n])
                 /\ page'[net][n] = Nothing /\ page[net][n] # Nothing =>
                       d.prune /\ d.loaded[n] = Nothing
                 /\ (known /\ d.prune /\ n \in extraChanges(d.loaded, d.seen)) =>
                       page'[net][n] = Nothing]_publishVars

\* What a signed document does to a page is what its author was shown.
PushesAreSound == LandsAsBuilt /\ PushIsFaithful
=============================================================================
