------------------------ MODULE MCProducerSignals ------------------------
EXTENDS ProducerSignals

\* More observations than one behaviour makes under the other bounds.
MCMaxEmits == 30
=============================================================================
