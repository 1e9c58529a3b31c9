----------------------------- MODULE MCWebhooks -----------------------------
(* An instance of Webhooks. *)
EXTENDS Webhooks

\* the event a registration announces and one of the run
MCEvents == {"task.created", "task.completed"}

\* no list, and a list without task.created that names the test
MCRequests == {{}, {"task.completed", "webhook.test"}}
=============================================================================
