----------------------------- MODULE MCCommand -----------------------------
(* The files, browsing sessions and results of the instance: a few scenarios  *)
(* that are accepted, varied in one section at a time.                        *)
EXTENDS Command

Map(keys) == [kind |-> "map", keys |-> keys, bad |-> {}]
Scalar == [kind |-> "scalar", keys |-> {}, bad |-> {}]
Node(keys) == [kind |-> "map", keys |-> keys, bad |-> {}, source |-> ""]

Rate(n, unit) == [number |-> n, unit |-> unit]
Phase(profile, keys, from, to, duration) ==
    [kind |-> "map", bad |-> {}, profile |-> profile, keys |-> keys, from |-> from, to |-> to,
     duration |-> duration]
Plateau == Phase("steady", {"rate", "duration"}, Rate(0, ""), Rate(2, "/s"), 2)
Ramp == Phase("ramp", {"from", "to", "duration"}, Rate(1, "/s"), Rate(3, "/s"), 2)
Open == [kind |-> "map", keys |-> {"profiles"}, bad |-> {}, model |-> "", users |-> 0, duration |-> 0,
         think |-> 0, profiles |-> <<Plateau>>]
ClosedLoop == [Open EXCEPT !.keys = {"model", "users", "duration"}, !.model = "closed", !.users = 2,
                           !.duration = 2]

Capture(variable) == [variable |-> variable, kind |-> "scalar", keys |-> {}, bad |-> {}, from |-> "json"]
Step(name, protocol, keys) ==
    [kind |-> "map", keys |-> {"name", protocol}, node |-> Node(keys), name |-> name, derived |-> "",
     weight |-> 0, captures |-> {}, expect |-> Map({"status"}), address |-> ""]
Weighted(step, weight) == [step EXCEPT !.keys = @ \cup {"weight"}, !.weight = weight]
Capturing(step, names) ==
    [step EXCEPT !.keys = @ \cup {"capture", "expect"}, !.captures = {Capture(n) : n \in names}]

Get == Step("get", "http", {"method", "path", "headers"})
Post == Step("post", "http", {"path", "body"})
Produce == Step("produce", "kafka", {"topic", "value"})
AwaitReply == [Step("await", "await", {"kafka", "key"}) EXCEPT !.node.source = "mapWithTopic"]
Unnamed == [AwaitReply EXCEPT !.keys = {"await"}, !.derived = NewDerivedName]
Poll == Step("poll", "await", {"http", "until"})
Query == Step("query", "graphql", {"query", "variables"})
Publish(address) == [Step("publish", "amqp", {"queue", "body"}) EXCEPT !.address = address]

Ref(name, block, step, field) == Reference(name, "", block, step, field)
Env(name, block, step, field) == [Ref(name, block, step, field) EXCEPT !.env = TRUE]
FromData(source, name, step) == Reference(name, source, "step", step, "body")
Rule(target, metric, operator, limit) ==
    [target |-> target, metric |-> metric, operator |-> operator, limit |-> limit, readable |-> TRUE,
     quoted |-> FALSE]

People == [kind |-> "map", keys |-> {"file"}, bad |-> {}, seed |-> "number", seedVar |-> "",
           fields |-> <<>>, columns |-> {"name"}]
Generated == [People EXCEPT !.keys = {"generate", "seed"}, !.columns = {},
    !.fields = [id |-> [kind |-> "map", keys |-> {"type"}, bad |-> {}, type |-> "uuid"]]]

Blank == [form |-> "map", keys |-> {"name", "target", "load", "scenario"}, name |-> "s", target |-> "http",
          vars |-> {}, secrets |-> {}, load |-> Open, steps |-> <<Get>>, data |-> [none |-> People],
          auth |-> [kind |-> "map", keys |-> {"obtain"}, bad |-> {}, type |-> "token",
                    obtain |-> Capturing(Post, {"token"})],
          tls |-> Scalar, messaging |-> [kind |-> "map", keys |-> {}, brokers |-> <<>>],
          requires |-> [kind |-> "list", keys |-> {}, bad |-> {}], slo |-> <<>>, refs |-> {}, words |-> {}]
With(doc, keys) == [doc EXCEPT !.keys = @ \cup keys]

Chain == [Blank EXCEPT !.steps = <<Capturing(Post, {"id"}), Get>>, !.refs = {Ref("id", "step", 2, "path")}]
Mix(w, v, u) == [Blank EXCEPT !.steps = <<Weighted(Get, w), Weighted(Post, v), Weighted(Query, u)>>]
Login == [With(Blank, {"auth"}) EXCEPT !.refs = {Ref("token", "step", 1, "headers")}]
Data == [With(Blank, {"data"}) EXCEPT !.data = [people |-> People, ids |-> Generated],
            !.refs = {FromData("people", "name", 1), FromData("ids", "id", 1)}]
KafkaBlock(keys) == [kind |-> "map", keys |-> {"kafka"}, brokers |-> [kafka |->
    [kind |-> "map", keys |-> keys, bad |-> {}, tls |-> Scalar,
     auth |-> [kind |-> "map", keys |-> {"type", "user", "password"}, bad |-> {}, type |-> "saslPlain",
               password |-> "reference"]]]]
Broker == [With(Blank, {"messaging"}) EXCEPT !.steps = <<Produce, AwaitReply>>,
              !.messaging = KafkaBlock({"addresses", "auth", "tls"}),
              !.refs = {[Env("PW", "messaging", 0, "password") EXCEPT !.raw = TRUE]}]
Judged(rules) == [With(Blank, {"slo"}) EXCEPT !.slo = rules]
Variable == [With(Blank, {"variables"}) EXCEPT !.vars = {"v"},
                !.refs = {Ref("v", "step", 1, "headers"), Env("V", "variables", 0, "v")}]
Old == [With(Blank, {"slo"}) EXCEPT !.steps = <<Unnamed>>, !.target = "broker",
          !.slo = <<Rule(OldDerivedName, "p95", "<", 100)>>,
          !.words = {[where |-> "top", old |-> TRUE, quoted |-> FALSE], [where |-> "http", old |-> FALSE, quoted |-> TRUE]}]
OldShared == [Old EXCEPT !.steps = <<Unnamed, [AwaitReply EXCEPT !.name = OldDerivedName]>>]
OldNamed == [Old EXCEPT !.steps = <<[AwaitReply EXCEPT !.name = OldDerivedName]>>]
OldQuoted == [Old EXCEPT !.slo[1].quoted = TRUE]
OldScope(quoted) == [Old EXCEPT !.slo = Append(@, [Rule("jornada", "p95", "<", 100) EXCEPT !.quoted = quoted])]
OldRecipe == [Old EXCEPT !.words = @ \cup {[where |-> "recipe", old |-> TRUE, quoted |-> TRUE]}]

\* One section at a time.
Loads == {Open, ClosedLoop, [Open EXCEPT !.profiles = <<Ramp, Plateau>>], [Open EXCEPT !.profiles = <<>>],
          [Open EXCEPT !.keys = {"profiles", "users"}], [Open EXCEPT !.bad = {"profiles"}],
          [Open EXCEPT !.profiles = <<[Plateau EXCEPT !.to = Rate(2, "")]>>],
          [Open EXCEPT !.profiles = <<[Plateau EXCEPT !.to = Rate(1, "/h")]>>],
          [Open EXCEPT !.profiles = <<[Ramp EXCEPT !.keys = {"duration"}]>>],
          [Open EXCEPT !.profiles = <<[Plateau EXCEPT !.keys = {"rate"}]>>],
          [ClosedLoop EXCEPT !.users = 0], [ClosedLoop EXCEPT !.keys = {"model", "users"}],
          [ClosedLoop EXCEPT !.keys = @ \cup {"profiles"}], [ClosedLoop EXCEPT !.model = "other"]}
ByLoad == {[Blank EXCEPT !.load = l] : l \in Loads}

BySteps == {[Blank EXCEPT !.steps = s] : s \in {
    <<>>, <<Get, Get>>, <<Weighted(Get, 1), Post>>, <<Weighted(Get, 0)>>, <<Produce>>, <<Poll>>, <<Query, Post>>,
    <<[Produce EXCEPT !.address = "own"]>>, <<Publish("")>>, <<Publish("own")>>, <<Publish("http")>>, <<[Get EXCEPT !.keys = {"name"}]>>,
    <<[Get EXCEPT !.keys = @ \cup {"graphql"}]>>, <<[Get EXCEPT !.node.keys = {"method"}]>>,
    <<[Get EXCEPT !.keys = @ \cup {"expect"}, !.expect = Map({"body"})]>>,
    <<[Capturing(Get, {"x"}) EXCEPT !.captures = {[Capture("x") EXCEPT !.kind = "map", !.keys = {"from"}]}]>>,
    <<[Capturing(Get, {"x"}) EXCEPT !.captures = {[Capture("x") EXCEPT !.from = "elsewhere"]}]>>}}
    \cup {[Blank EXCEPT !.target = t, !.steps = <<p>>] : t \in {"", "broker", "invalid"}, p \in {Produce, Get, Poll}}

ByReferences ==
    {Chain, Data, Login, Broker, Variable,
     [Chain EXCEPT !.refs = {Ref("other", "step", 2, "path")}],
     [Chain EXCEPT !.refs = {Ref("id", "step", 1, "path")}],
     [Chain EXCEPT !.refs = {Env("V", "step", 2, "path")}],
     [Chain EXCEPT !.refs = {Env("V", "step", 2, "timeout"), [Env("W", "step", 1, "path") EXCEPT !.fallback = TRUE]}],
     [Chain EXCEPT !.refs = {Env("V", "load", 0, "rate")}], [Chain EXCEPT !.refs = {Env("V", "target", 0, "")}],
     [Data EXCEPT !.refs = {FromData("people", "age", 1)}], [Data EXCEPT !.refs = {FromData("ids", "no", 1)}],
     [Data EXCEPT !.refs = {FromData("none", "id", 1)}], [Data EXCEPT !.refs = {FromData("people", "V", 1)}],
     [Data EXCEPT !.refs = {[FromData("none", "id", 1) EXCEPT !.fallback = TRUE]}],
     [Data EXCEPT !.data.ids.seed = "reference", !.data.ids.seedVar = "V"],
     [Login EXCEPT !.auth.keys = {"type", "user", "password", "obtain"}, !.auth.type = "basic"],
     [Login EXCEPT !.auth.keys = {}],
     [Broker EXCEPT !.messaging = KafkaBlock({"tls"})],
     [Broker EXCEPT !.refs = @ \cup {Env("PW", "step", 1, "value"), Env("V", "step", 2, "equals")}],
     [Variable EXCEPT !.secrets = {[block |-> "variables", text |-> "literal"]}],
     [Chain EXCEPT !.secrets = {[block |-> "step", text |-> "literal"]}],
     With([Blank EXCEPT !.requires.keys = {"kafka"}], {"requires", "tls"}), With(Blank, {"colour"}),
     [Blank EXCEPT !.form = "broken"]}

WeightedPoll == Weighted(Poll, 1)
ByMix == {Mix(1, 1, 1), Mix(3, 1, 1), Mix(2, 4, 6), Mix(5, 2, 1), [Mix(7, 1, 1) EXCEPT !.steps = Append(@, WeightedPoll)]}
    \cup {[Mix(2, 1, 1) EXCEPT !.steps[2] = Capturing(@, {"id"}), !.refs = {Ref("id", "step", i, "path")}] : i \in 1 .. 3}

Rules == {Rule("get", "p95", "<", 100), Rule("journey", "p99", "", 100), Rule("global", "p50", "<=", 100),
          Rule("global", "errors", "", 30), Rule("get", "success", "", 60), Rule("global", "throughput", "", 2),
          Rule("regression", "journeyP95", "<=", 20), Rule("regression", "globalMax", "<", 20),
          Rule("regression", "globalP95", "<=", -10), Rule("regression", "journeyP50", ">", 5),
          Rule("absent", "p95", "<", 1), Rule("get", "throughput", ">", 1)}
BySLO == {Judged(<<r>>) : r \in Rules}
Gated == {[Judged(<<Rule("get", "p95", "<", 100), Rule("global", "errors", "<", 60)>>) EXCEPT !.load = l,
              !.steps = <<Get, Post>>] : l \in {Open, ClosedLoop}}
         \cup {[Judged(<<Rule("get", "p95", ">", 5)>>) EXCEPT !.load = ClosedLoop]}

(* Runs and results. *)
Outcome(failing, latency, service) ==
    [sent |-> 4, cut |-> FALSE, dropped |-> 0, failing |-> failing, latency |-> latency, service |-> service, rate |-> 2]
Fine == Outcome("none", 50, 40)
MCOutcomes == {Fine, Outcome("none", 300, 200), Outcome("half", 50, 40), Outcome("most", 50, 40),
               Outcome("all", 50, 40), [Fine EXCEPT !.cut = TRUE], [Fine EXCEPT !.dropped = 1]}

Result(o) == Document(Blank, o)
Results == {Result(Fine), Result(Outcome("none", 300, 200)), Result(Outcome("all", 50, 40)),
            [Result(Fine) EXCEPT !.run.host = "there"]}

(* Browsing.  A value is an identifier, or a name long enough to be told apart; a      *)
(* reference to a source of data is long enough to look like an identifier itself.    *)
MCIdentifiers == {"1234", "5678", "9012", "${orders_id.value}", "${invoices_id.value}"}
MCVersions == {"v1"}
Cleaned == [x \in {"order-id", "orders pay", "SignIn", "Cart", "${id}", "${order_id}"} |->
    CASE x = "order-id" -> "order_id" [] x = "orders pay" -> "orders_pay" [] x = "SignIn" -> "signin"
      [] x = "Cart" -> "cart" [] x = "${id}" -> "id" [] x = "${order_id}" -> "order_id"]
MCSanitize(name) == IF name \in DOMAIN Cleaned THEN Cleaned[name] ELSE name
Value(name, value) == [name |-> name, value |-> value, long |-> TRUE]
Request(method, host, path, carries, reply) ==
    [kind |-> "page", method |-> method, host |-> host, path |-> path, operation |-> "", carries |-> carries,
     secret |-> "none", reply |-> reply]
Part(value, where) == [value |-> value, where |-> where]
CreateOrder == Request("post", "shop", <<"v1", "orders">>, {}, <<Value("id", "1234")>>)
ReadOrder == Request("get", "shop", <<"orders", "1234">>, {}, <<Value("id", "5678")>>)
PayOrder == Request("put", "shop", <<"orders", "1234", "pay">>, {Part("5678", "text")}, <<Value("id", "anna")>>)
Invoice == Request("get", "shop", <<"invoices", "9012", "1234">>, {Part("anna", "query")}, <<>>)
Dashed == Request("get", "shop", <<"lists", "1234">>, {}, <<Value("order-id", "5678"), Value("order_id", "anna")>>)
Search(where) == Request("get", "shop", <<"search">>, {Part("5678", where), Part("anna", "number")}, <<>>)
Asset == [Request("get", "shop", <<"logo">>, {}, <<>>) EXCEPT !.kind = "static"]
Outside == Request("get", "cdn", <<"list">>, {}, <<>>)
Tunnelled == [Outside EXCEPT !.kind = "connect"]
Direct == [Outside EXCEPT !.kind = "direct"]
SignIn == [Request("post", "shop", <<"graphql">>, {}, <<Value("session", "anna"), Value("shop", "1234")>>)
              EXCEPT !.operation = "SignIn", !.secret = "header"]
Cart == [Request("post", "shop", <<"graphql", "1234">>, {Part("anna", "text")}, <<>>) EXCEPT !.operation = "Cart"]
Sessions == {
    [a |-> CreateOrder, b |-> ReadOrder, c |-> PayOrder],
    [a |-> CreateOrder, b |-> ReadOrder, c |-> PayOrder, d |-> Invoice],
    [a |-> CreateOrder, b |-> ReadOrder, c |-> Outside, d |-> Asset],
    [a |-> SignIn, b |-> Cart, c |-> Tunnelled, d |-> Direct],
    [a |-> SignIn, b |-> [Cart EXCEPT !.secret = "field"]],
    [a |-> Invoice, b |-> [Invoice EXCEPT !.path[2] = "5678"], c |-> [PayOrder EXCEPT !.secret = "field"]],
    [a |-> CreateOrder, b |-> Dashed, c |-> Search("query"), d |-> [ReadOrder EXCEPT !.reply = <<>>]],
    [a |-> CreateOrder, b |-> Dashed, c |-> Search("encoded")],
    [a |-> SignIn, b |-> [Cart EXCEPT !.carries = {Part("anna", "number")}]],
    [a |-> SignIn, b |-> [Cart EXCEPT !.secret = "field", !.carries = {Part("anna", "secret")}]],
    [a |-> SignIn, b |-> [Search("query") EXCEPT !.secret = "header", !.carries = {Part("anna", "secret"), Part("1234", "text")}]]}

(* Invocations. *)
Quiet == [command |-> "", args |-> "ok", docs |-> <<Blank>>, edited |-> Blank, defined |-> {}, session |-> {},
          outputs |-> {}, baseline |-> "none", before |-> Result(Fine), after |-> Result(Fine),
          dryRun |-> FALSE, output |-> "", exists |-> FALSE, traffic |-> [a |-> Asset], hosts |-> {}]
Invoke(command, doc) == [Quiet EXCEPT !.command = command, !.docs = <<doc>>, !.edited = doc]
AllDocs == ByLoad \cup BySteps \cup ByReferences \cup ByMix \cup BySLO \cup Gated

MCInvocations ==
    {[Invoke(c, d) EXCEPT !.defined = e] : c \in {"validate", "execute", "debug"}, d \in AllDocs, e \in {{}, {"V", "PW"}}}
    \cup {[Invoke("serve run", d) EXCEPT !.session = {"V", "PW"}] : d \in ByReferences}
    \cup {[Invoke("execute", Blank) EXCEPT !.edited = d] : d \in {Chain, Broker, [Blank EXCEPT !.target = ""]}}
    \cup {[Invoke("execute", d) EXCEPT !.outputs = Outputs, !.baseline = b, !.before = r] :
            d \in Gated \cup BySLO, b \in {"read", "unreadable"}, r \in Results}
    \cup {[Invoke("report", Blank) EXCEPT !.outputs = o, !.baseline = b] :
            o \in {{}, {"html", "csv"}}, b \in {"read", "unreadable"}}
    \cup {[Invoke("compare", Blank) EXCEPT !.outputs = {"html"}, !.baseline = "read", !.before = r, !.after = s] :
            r \in Results, s \in Results}
    \cup {[Invoke(c, Blank) EXCEPT !.exists = e, !.output = o] :
            c \in {"new", "import"}, e \in BOOLEAN, o \in {"", "other"}}
    \cup {Invoke(c, Blank) : c \in {"serve", "ui", "target", "demo"}}
    \cup {[Invoke("record", Blank) EXCEPT !.traffic = t, !.hosts = h] : t \in Sessions, h \in {{}, {"shop"}}}
    \cup {[Invoke("migrate", d) EXCEPT !.output = o, !.dryRun = y] :
            d \in {Old, OldNamed, OldShared, OldQuoted, OldScope(FALSE), OldScope(TRUE), OldRecipe, Blank,
                   [Old EXCEPT !.words = {[where |-> "top", old |-> TRUE, quoted |-> TRUE]}],
                   [Old EXCEPT !.form = "broken"]},
            o \in {"", "other", "self"}, y \in BOOLEAN}
    \cup {[Invoke("migrate", Old) EXCEPT !.docs = <<Old, OldNamed>>, !.output = o] : o \in {"", "other"}}
    \cup {[Invoke("execute", Blank) EXCEPT !.args = a] : a \in {"help", "unknown", "missing"}}

\* Rules on the regression, with and without a previous result.
BaselineInvocations ==
    {[Invoke("execute", d) EXCEPT !.baseline = b] : d \in BySLO, b \in {"none", "read"}}

\* The gate of a closed loop on its own.
ClosedInvocations == {[Invoke("execute", d) EXCEPT !.outputs = o] : d \in Gated, o \in SUBSET Outputs}
=============================================================================
