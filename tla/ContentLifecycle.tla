--------------------------- MODULE ContentLifecycle ---------------------------
(* The refinement mapping from the pipeline's handlers to the lifecycle.       *)
EXTENDS ContentPipeline

Lifecycle == INSTANCE ArticleLifecycle WITH stage <- status, drawn <- art

\* Without crashes and second submissions the three handlers implement the lifecycle
\* (worker.py, summarize.py, generate_image.py, content_status_state_machine.py).
ImplementsLifecycle == Lifecycle!Spec
===============================================================================
