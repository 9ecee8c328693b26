------------------------------ MODULE MCParsers ------------------------------
(* Two threads where they can meet (messages pass from one to the other),   *)
(* one where the parser looks at the thread alone.                          *)
EXTENDS Parsers

Header(mig, local) == [mig |-> mig, local |-> local]

WithHeaders(headers, kind, threads, keys, long, max, losses, depth) ==
  [kind |-> kind, threads |-> threads, keys |-> keys, long |-> long,
   headers |-> headers, max |-> max, lost |-> losses, depth |-> depth]

Family(kind, threads, keys, long, max, losses, depth) ==
  WithHeaders({Header(FALSE, TRUE)}, kind, threads, keys, long, max, losses, depth)

Headers == [mig : BOOLEAN, local : BOOLEAN]

MCFamilies ==
  {Family("message", {"a", "b"}, {1}, {}, 4, 2, 1),
   Family("message", {"a"}, {1, 2}, {}, 3, 2, 2),
   WithHeaders(Headers, "message", {"a", "b"}, {1}, {}, 2, 2, 2),
   WithHeaders(Headers, "message", {"a"}, {1, 2}, {}, 2, 2, 2),
   WithHeaders(Headers, "message", {"a"}, {1}, {}, 3, 2, 2),
   Family("wakeup", {"a", "b"}, {1, 2}, {}, 3, 2, 2),
   Family("interrupt", {"a"}, {1, 2}, {}, 4, 2, 2),
   Family("block", {"a"}, {1, 2}, {}, 4, 2, 3),
   Family("call", {"a"}, {1, 2}, {2}, 4, 4, 1),
   Family("frames", {"a"}, {1, 2}, {2}, 4, 4, 1),
   Family("nsapp", {"a"}, {0, 1}, {}, 4, 4, 1),
   Family("trap", {"a", "b"}, {1}, {}, 4, 3, 1)}
=============================================================================
