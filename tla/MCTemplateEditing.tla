-------------------------- MODULE MCTemplateEditing --------------------------
EXTENDS TemplateEditing
CONSTANTS netbox
=============================================================================
