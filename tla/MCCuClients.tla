----------------------------- MODULE MCCuClients -----------------------------
(* Six steps with two turns kept: the conversation is trimmed from the third  *)
(* request on, after retries and after a fragment at the third step.          *)
EXTENDS CuClients

call(tool, args) == [tool |-> tool, args |-> args]
MCGeminiCalls == {call("click_at", {"coordinate"}), call("click_at", {}),
                  call("key_combination", {}), call("go_back", {}), call("finished", {})}
MCAgentCalls == {call("click_element", {"coordinate"}), call("click_element", {}),
                 call("upload_file", {}), call("go_to_url", {}), call("done", {}),
                 call("none", {})}
MCScript == <<"click_at", "finish">>
=============================================================================
