----------------------------- MODULE MCRepoIndex -----------------------------
(* A caller, two files its import may mean, and a class with two methods.   *)
EXTENDS RepoIndex

Sym(k, n, i, t) == [kind |-> k, name |-> n, in |-> i, type |-> t]
Ref(f, i, n, r, a) == [kind |-> "CALLS", from |-> f, in |-> i, name |-> n, recv |-> r, arg |-> a]
Use(l, m) == [local |-> l, module |-> m, name |-> l]

MCCode ==
  [main  |-> [syms    |-> {Sym("function", "main", None, None), Sym("param", "db", "main", "Conn")},
              calls   |-> {Ref("main", None, "run", "db", None),
                           Ref("main", None, "helper", None, "db"),
                           Ref("main", None, "print", None, None)},
              imports |-> {Use("helper", "./util")}],
   short |-> [syms    |-> {Sym("function", "main", None, None), Sym("const", "limit", None, None)},
              calls   |-> {Ref("main", None, "helper", None, "limit")},
              imports |-> {Use("helper", "./util")}],
   func  |-> [syms    |-> {Sym("function", "helper", None, None)},
              calls   |-> {Ref("helper", None, "read", None, None)},
              imports |-> {Use("read", "fs")}],
   class |-> [syms    |-> {Sym("class", "Conn", None, None), Sym("method", "run", "Conn", None),
                           Sym("method", "go", "Conn", None)},
              calls   |-> {Ref("run", "Conn", "go", "this", None),
                           Ref("run", "Conn", "close", "this", None)},
              imports |-> {}],
   other |-> [syms    |-> {Sym("function", "helper", None, None), Sym("class", "Other", None, None),
                           Sym("method", "close", "Other", None)},
              calls   |-> {[Ref("Other", None, "Conn", None, None) EXCEPT !.kind = "EXTENDS"]},
              imports |-> {}]]

MCLookup   == [m \in {"./util", "fs"} |-> IF m = "fs" THEN <<>> ELSE <<"util", "alt">>]
MCVariants == [app |-> {"main", "short"}, util |-> {"func", "class"}, alt |-> {"other"}]
MCStart    == [app |-> "main", util |-> "func", alt |-> None]
=============================================================================
