----------------------------- MODULE MCMcpProxy -----------------------------
(***************************************************************************)
(* Instances of McpProxy for TLC.                                          *)
(***************************************************************************)
EXTENDS McpProxy

Request(id, method, tool) == [id |-> id, method |-> method, tool |-> tool]
Call(id, tool) == Request(id, "tools/call", tool)

\* One call of each verdict, two that are allowed, and the messages passed on.
MixedRequests ==
    {Call(1, "climate"), Call(2, "climate"), Call(3, "pay"), Call(4, "export"), Call(5, "clocked"),
     Request(6, "other", "none"), Request(7, "initialized", "none"),
     Request(8, "malformed", "none")}

ToolVerdict(tool) ==
    CASE tool = "climate" -> "Allow"
      [] tool = "pay" -> "PendingApproval"
      [] tool = "clocked" -> "error"
      [] OTHER -> "Deny"

MixedVerdict == [r \in MixedRequests |-> ToolVerdict(r.tool)]
=============================================================================
