---------------------------- MODULE MCInvocation ----------------------------
(***************************************************************************)
(* A small instance of Invocation: what clients and messages call is one   *)
(* function, and another is there that must not be called instead. Each    *)
(* request is for one rule of Resolve(), or one of the header rewrites.    *)
(***************************************************************************)
EXTENDS Invocation

CONSTANTS Called, Other

MCWords == Functions \cup {"", "x", "Bad", "_cf", "push", "elsewhere", "listener", Suffix}
MCTokens == {"client", "a", "b", "d", "v", "theirs", "trailers", "x-custom", ForwardedFor, ExecutionId}

Ask(host, path, headers) == [host |-> host, path |-> path, headers |-> headers]

(* By host, also under paths that are a route of their own.                *)
ByHost ==
  {Ask(<<Called, Suffix>>, path, NoHeaders) :
     path \in {RootPath, <<Other>>, <<Called, "x">>, <<"_cf", "push", Other>>}}

(* By path, where the host is absent, or has no valid name.                *)
ByPath ==
  {Ask(<<>>, path, NoHeaders) : path \in {<<Called>>, <<Called, "">>, <<Called, "x", Called>>}}
    \cup {Ask(host, <<Called, Other>>, NoHeaders) : host \in {<<"elsewhere">>, <<"Bad", Suffix>>}}

(* Nowhere, and to a push path without an envelope.                        *)
Astray ==
  {Ask(<<>>, path, NoHeaders) :
     path \in {<<>>, RootPath, <<"", "x">>, <<"Bad">>, <<"_cf">>, <<"_cf", "x">>,
               <<"_cf", "push", "Bad">>, <<"_cf", "push", Called>>}}

WithHeaders ==
  {Ask(<<"elsewhere">>, <<Called, "x">>, headers) : headers \in
    {[NoHeaders EXCEPT !["connection"] = <<<<ForwardedFor>>, <<ExecutionId, "x-custom">>>>,
                       ![ForwardedFor] = <<<<"a">>>>, !["x-custom"] = <<<<"v">>>>],
     [NoHeaders EXCEPT !["te"] = <<<<"trailers">>>>, ![ForwardedFor] = <<<<"a", "b">>, <<"d">>>>,
                       ![ExecutionId] = <<<<"theirs">>>>, !["x-custom"] = <<<<"v">>>>]}}

MCClientRequests == ByHost \cup ByPath \cup Astray \cup WithHeaders
=============================================================================
