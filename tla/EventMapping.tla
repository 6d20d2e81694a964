---------------------------- MODULE EventMapping ----------------------------
(***************************************************************************)
(* How an alert gets to the graph.  What a honeypot reports is pulled into *)
(* the store, read from there by one of three mappings (the collector's of *)
(* the API's rows, the collector's of the store's tables, the exporter's   *)
(* of the API's rows), or by the adapters from the honeypots' own records, *)
(* and normalized by the graph builder, which decides by its anchors whose *)
(* it is.  Each of these names the source, the object and the identities   *)
(* of an alert by itself.                                                  *)
(*                                                                         *)
(* Identities and names are values; None is one that is absent or empty.   *)
(* The texts that stand for an absent one are values of their own: "-" in  *)
(* the store, "unknown" in what is mapped.  An event's stage, severity and *)
(* wording are left out, and its time is EventCollection's.                *)
(***************************************************************************)
EXTENDS Naturals, Sequences, FiniteSets

CONSTANTS
    Record,     \* what honeypots may report
    Honeyfile,  \* of each token, where its file is deployed and what it is called
    None,
    MaxReports  \* bound on the alerts of an analysis

Stored == {"file", "account", "parasitic"}

Fields == {"kind", "ip", "fp", "session", "camel", "user", "protocol", "dst", "url", "token", "path",
           "name", "labels", "call", "pid", "parent"}

\* The names a record may give its object, its file's from the management included.
Names(r) == {r.url, r.token, r.path, r.name, r.dst, r.pid}
            \cup (IF r.kind = "file" THEN {Honeyfile[r.token].path} ELSE {})

\* What the proofs assume of the constants: what a honeypot of a kind does not record,
\* that no browser's fingerprint is the name of a session, and that nothing is called
\* by a text that stands for an absent name.
MappingAssumption ==
    /\ None \notin {"unknown", "-"}
    /\ \A r \in Record :
          /\ DOMAIN r = Fields /\ r.kind \in Stored \cup {"audit"}
          /\ r.camel \in BOOLEAN
          /\ r.kind # "parasitic" => r.fp = None /\ r.session = None
          /\ r.kind # "account" => r.user = None
          /\ "unknown" \notin {r.fp, r.session} /\ Names(r) \cap {"unknown", "-"} = {}
    /\ \A r, s \in Record : r.fp # None => r.fp # s.session

VARIABLES
    phase,
    reports,  \* the honeypots' records
    way,      \* how they are read: the collector's mode, or the exporter
    fallen,   \* kinds read from the honeypots' own records
    items,    \* the alerts as mapped
    events    \* and as the builder has normalized them

vars == <<phase, reports, way, fallen, items, events>>

Init == /\ phase = "reports" /\ reports = {} /\ items = <<>> /\ events = <<>>
        /\ way = None /\ fallen = {}

Report(r) ==
    /\ phase = "reports" /\ Cardinality(reports \cup {r}) <= MaxReports
    /\ reports' = reports \cup {r}
    /\ UNCHANGED <<phase, way, fallen, items, events>>

-----------------------------------------------------------------------------
Or(x, y) == IF x = None THEN y ELSE x

\* What a pull stores: of a file where it is deployed and what it is called, of a page
\* its session under one name, and a text in place of what is missing.
Pulled(r) ==
    CASE r.kind = "file" -> [r EXCEPT !.path = Or(Honeyfile[r.token].path, "-"),
                                      !.name = Or(Honeyfile[r.token].name, "-")]
      [] r.kind = "parasitic" -> [r EXCEPT !.camel = FALSE, !.url = Or(@, "unknown")]
      [] OTHER -> r

\* extract_campaign_id: the first label that a field of the row carries, however deep.
Campaign(r) == IF r.labels = <<>> THEN None ELSE r.labels[1]

\* UnifiedAlert.
Item(r, source, object) ==
    [ip |-> r.ip, source |-> source, object |-> object, label |-> r.ip, fp |-> None,
     session |-> None, user |-> None, campaign |-> Campaign(r)]

Network(r) == <<"network", Or(r.ip, "unknown")>>
Service(r) == <<"service", r.protocol, r.dst>>
Session(r) == IF r.camel THEN None ELSE r.session
Login(r) == [Item(r, Network(r), Service(r)) EXCEPT !.user = r.user]
Visit(r, browser) ==
    [Item(r, <<"browser", Or(browser, "unknown")>>, <<"url", Or(r.url, "unknown")>>) EXCEPT
        !.label = Or(browser, "unknown"), !.fp = r.fp, !.session = Session(r)]

\* _map_unified_api_row_to_alert of the collector, of the exporter (which looks for
\* no campaign), and the three parsers of the store's rows.
MapApiRow(r) ==
    CASE r.kind = "file" -> Item(r, Network(r), <<"file", Or(Or(r.url, r.token), "unknown")>>)
      [] r.kind = "account" -> Login(r)
      [] r.kind = "parasitic" -> Visit(r, Or(r.fp, Session(r)))

MapExportRow(r) == [MapApiRow(r) EXCEPT !.campaign = None]

\* The store has a path of every file, if only "-": the name and the token behind it
\* are not asked.
ParseFile(r) ==
    LET target == Or(r.path, Or(r.name, Or(r.url, "-")))
    IN  Item(r, Network(r), <<"file", IF target = "-" THEN "unknown" ELSE target>>)
ParseAccount(r) == Login(r)
ParseParasitic(r) == Visit(r, Or(r.fp, Session(r)))

\* The adapters.  A VPN's log names no user, and a page's source is a fingerprint.
AdaptFile(r) == Item(r, Network(r), <<"file", Or(r.path, Or(r.name, Or(r.url, "unknown")))>>)
AdaptAccount(r) == [Login(r) EXCEPT !.user = IF r.protocol = "openvpn" THEN None ELSE @]
AdaptParasitic(r) == Visit(r, r.fp)

\* A process that starts another is its source; the calls clone and fork are one.  The
\* audit log knows neither an address nor a label.
Spawns == {"execve", "fork", "clone"}
AdaptAudit(r) ==
    [Item(r, <<"process", Or(IF r.call \in Spawns THEN Or(r.parent, r.pid) ELSE r.pid, "unknown")>>,
          CASE r.call \in Spawns -> <<"process", Or(r.pid, "unknown")>>
            [] r.call = "connect" -> <<"network", Or(r.path, Or(r.dst, "unknown"))>>
            [] OTHER -> <<"file", Or(r.path, "unknown")>>)
     EXCEPT !.ip = None, !.label = None, !.campaign = None]

Adapt(r) ==
    CASE r.kind = "file" -> AdaptFile(r)
      [] r.kind = "account" -> AdaptAccount(r)
      [] r.kind = "parasitic" -> AdaptParasitic(r)
      [] r.kind = "audit" -> AdaptAudit(r)

Parse(r) ==
    CASE r.kind = "file" -> ParseFile(r)
      [] r.kind = "account" -> ParseAccount(r)
      [] r.kind = "parasitic" -> ParseParasitic(r)

-----------------------------------------------------------------------------
\* One way for all kinds, or each kind from the store or, if the store has none of
\* it, from the honeypots; audit records are nowhere else.
CollectRows(mode, Map(_)) ==
    /\ phase = "reports" /\ phase' = "collected" /\ way' = mode /\ fallen' = {}
    /\ items' = [r \in {s \in reports : s.kind \in Stored} |-> Map(Pulled(r))]
    /\ UNCHANGED <<reports, events>>

CollectApi == CollectRows("unified", MapApiRow)
Export == CollectRows("export", MapExportRow)

CollectEach(kinds) ==
    /\ phase = "reports" /\ phase' = "collected" /\ way' = "each" /\ fallen' = kinds
    /\ items' = [r \in reports |-> IF r.kind \in kinds THEN Adapt(r) ELSE Parse(Pulled(r))]
    /\ UNCHANGED <<reports, events>>

\* Deviation: the labels of experiments are kept.
LabelledEvent(item) == [item EXCEPT !.fp = IF item.source[1] = "browser" THEN item.label ELSE @]

\* _normalize_event: a browser's label is taken for its fingerprint, and the labels of
\* experiments are dropped.
NormalizeEvent(item) ==
    [item EXCEPT !.fp = IF item.source[1] = "browser" THEN item.label ELSE @, !.campaign = None]

\* _build_attacker_anchor_keys.
Anchors(e) == {a \in {<<kind, e[kind]>> : kind \in {"campaign", "fp", "session", "ip", "user"}} : a[2] # None}

Build ==
    /\ phase = "collected" /\ phase' = "graph"
    /\ events' = [r \in DOMAIN items |->
          [source |-> items[r].source, object |-> items[r].object,
           anchors |-> Anchors(NormalizeEvent(items[r]))]]
    /\ UNCHANGED <<reports, way, fallen, items>>

Next == \/ \E r \in Record : Report(r)
        \/ CollectApi \/ Export
        \/ \E kinds \in SUBSET Stored : CollectEach(kinds \cup {"audit"})
        \/ Build

Spec == Init /\ [][Next]_vars

-----------------------------------------------------------------------------
\* Types.
TypeOK ==
    /\ phase \in {"reports", "collected", "graph"} /\ \A r \in reports : r \in Record
    /\ way \in {None, "unified", "export", "each"} /\ fallen \subseteq Stored \cup {"audit"}
    /\ DOMAIN items \subseteq reports /\ DOMAIN events \subseteq reports

\* What an alert says of who it was, in as far as its reader has it.
Raw(r) == r.kind \in fallen
Evidence(r) ==
    {a \in {<<"ip", IF r.kind = "audit" THEN None ELSE r.ip>>, <<"fp", r.fp>>,
            <<"session", IF Raw(r) /\ r.camel THEN None ELSE r.session>>,
            <<"user", IF Raw(r) /\ r.protocol = "openvpn" THEN None ELSE r.user>>} : a[2] # None}
Nameless == {r \in DOMAIN events :
                r.kind = "parasitic" /\ r.fp = None /\ (Raw(r) \/ r.session = None)}

\* What its reader knows the object by.
Known(r) ==
    (CASE r.kind = "account" -> {r.dst}
       [] r.kind = "parasitic" -> {r.url}
       [] r.kind = "audit" -> IF r.call \in Spawns THEN {r.pid}
                              ELSE IF r.call = "connect" THEN {r.path, r.dst} ELSE {r.path}
       [] OTHER -> IF Raw(r) THEN {r.path, r.name, r.url}
                   ELSE IF way = "each" THEN {Honeyfile[r.token].path}
                   ELSE {r.url, r.token}) \ {None}

Joined(r, s) == events[r].anchors \cap events[s].anchors # {}

\* Whichever way alerts come to the graph, two of them have an anchor in common, and
\* may be laid to one attacker, exactly if their records share an address, a
\* fingerprint, a session or a user: no label of an experiment joins them
\* (graph_builder.py:178).  The exceptions: all browsers that left no name pass for
\* one, and the honeypots' own records lack a VPN's user and sessions named the
\* scripts' way.  One source is one attacker's.  One object stands for two records only
\* if their readers know it by one name, or neither knows it by any: so do, read from
\* the store, all files that are deployed nowhere, whatever their names and tokens.
EvidenceJoins ==
    phase = "graph" => \A r \in DOMAIN events : \A s \in DOMAIN events \ {r} :
        /\ Joined(r, s) <=> (Evidence(r) \cap Evidence(s) # {} \/ {r, s} \subseteq Nameless)
        /\ /\ events[r].source = events[s].source
           /\ events[r].source[1] # "process" /\ events[r].source[2] # "unknown"
           => Joined(r, s)
        /\ events[r].object = events[s].object =>
              Known(r) \cap Known(s) # {} \/ Known(r) \cup Known(s) = {}
=============================================================================
